---------------------------- MODULE Spec2Model ----------------------------
(***************************************************************************)
(* Model of the bateponto time ledger (src/core/time_tracker.py) on top of *)
(* its JSON event store (src/core/storage.py).                             *)
(*                                                                         *)
(* Time is the wall clock read by datetime.now(), in whole seconds.  An    *)
(* Optional[T] value of the program is a sequence: None is <<>> and a      *)
(* present value x is <<x>>.  A timedelta is an integer number of seconds. *)
(***************************************************************************)
EXTENDS Integers, Sequences, FiniteSets, TLC

(***************************************************************************)
(* Bounds of the model.                                                    *)
(***************************************************************************)
\* the clock advances in steps of Quantum seconds
Quantum == 45
\* the clock stops advancing once it has reached MaxTime
MaxTime == 90
\* operations are taken while the log holds fewer than MaxLog events
MaxLog == 4
\* number of add_adjustment calls of a behaviour
MaxAdj == 1
\* the reconstruction queries are checked on logs grown while they hold fewer
\* than MaxReplayLog events
MaxReplayLog == 3
\* number of add_entry calls of each thread in the concurrent store
MaxAppends == 1
\* number of time.sleep calls of the thread that watches for idleness
MaxPolls == 3
\* number of keyboard and mouse events the listeners deliver
MaxEvents == 2

(***************************************************************************)
(* Inputs.                                                                 *)
(***************************************************************************)
\* ids of the default projects, storage.py:37 and :43
Projects == {"p1", "p2"}
\* minutes typed into an adjustment
AdjMinutes == {-1, 0, 2}
\* how far the clock may move between two reads inside one operation
IntraDelays == {0, Quantum}

\* the main thread (user interface) and the thread that runs a callback of the
\* idle detector
Threads == {"main", "callback"}

(***************************************************************************)
(* Python values.                                                          *)
(***************************************************************************)
None == <<>>
Some(x) == <<x>>
Get(o) == o[1]
\* truth value of an Optional[str]: None and "" are false
Truthy(o) == o /= None /\ o /= Some("")

SecondsPerMinute == 60
SecondsPerHour == 3600
SecondsPerDay == 24 * SecondsPerHour

\* an isoformat that drops the seconds
isoformat_no_seconds(t) ==
    << t \div SecondsPerDay,
       (t % SecondsPerDay) \div SecondsPerHour,
       (t % SecondsPerHour) \div SecondsPerMinute,
       0 >>

\* datetime.isoformat(): the stored text, as its fields <<day, hour, minute, second>>
isoformat(t) ==
    << t \div SecondsPerDay,
       (t % SecondsPerDay) \div SecondsPerHour,
       (t % SecondsPerHour) \div SecondsPerMinute,
       t % SecondsPerMinute >>

\* datetime.fromisoformat(): the instant a stored text denotes
fromisoformat(s) ==
    s[1] * SecondsPerDay + s[2] * SecondsPerHour + s[3] * SecondsPerMinute + s[4]

\* int(x / 60) for a number of seconds x: truncation towards zero
IntDivMinutes(secs) ==
    IF secs >= 0 THEN secs \div SecondsPerMinute
                 ELSE -((-secs) \div SecondsPerMinute)

(***************************************************************************)
(* State.                                                                  *)
(***************************************************************************)
VARIABLES
    clock,            \* the wall clock
    current_project,  \* TimeTracker.current_project : Optional[str]
    current_start,    \* TimeTracker.current_start   : Optional[datetime]
    current_elapsed,  \* TimeTracker.current_elapsed : timedelta
    paused_project,   \* TimeTracker.paused_project  : Optional[str]
    pause_start,      \* TimeTracker.pause_start     : Optional[datetime]
    entries,          \* the "entries" list of time_entries.json
    adjustments,      \* number of add_adjustment calls so far
    call,             \* the last call: operation, arguments, result, state before
    file_valid,       \* time_entries.json holds a complete JSON text
    writer,           \* per thread: where it is inside Storage.add_entry
    added,            \* the entries whose add_entry call has returned
    observed,         \* what the last get_entries of a report query met
    answer,           \* the outcome of the last calculate_project_time call
    caller,           \* per thread: where it is inside a call that runs in steps
    last_activity,    \* IdleDetector.last_activity : datetime
    is_idle,          \* IdleDetector.is_idle
    running,          \* IdleDetector.running
    lock,             \* IdleDetector.lock: the thread that holds it, if any
    monitor,          \* the thread that runs IdleDetector._check_idle
    listener,         \* the pynput thread that runs IdleDetector._on_activity
    app,              \* where the main thread is with the detector
    invoked           \* the callback invocations so far, in order

vars == << clock, current_project, current_start, current_elapsed,
           paused_project, pause_start, entries, adjustments, call,
           file_valid, writer, added, observed, answer, caller,
           last_activity, is_idle, running, lock, monitor, listener, app,
           invoked >>

\* the state of the threads that use the store concurrently
store_vars == << file_valid, writer, added, observed >>

\* the state of the idle detector and of the threads that run it
idle_vars == << last_activity, is_idle, running, lock, monitor, listener, app,
               invoked >>

\* the state of the TimeTracker object
tracker_vars == << clock, current_project, current_start, current_elapsed,
                  paused_project, pause_start, adjustments, call >>

\* the TimeTracker object and its store as one value
Tracker ==
    [ current_project |-> current_project,
      current_start   |-> current_start,
      current_elapsed |-> current_elapsed,
      paused_project  |-> paused_project,
      pause_start     |-> pause_start,
      entries         |-> entries ]

(***************************************************************************)
(* Storage.                                                                *)
(***************************************************************************)
\* an add_entry that saves the new entry alone, as if it had read an empty list
add_entry_overwrites(es, entry) ==
    << [entry EXCEPT !.timestamp = isoformat(@)] >>

\* Storage.add_entry: read the list, turn the timestamp into text, append, save
add_entry(es, entry) ==
    Append(es, [entry EXCEPT !.timestamp = isoformat(@)])

(***************************************************************************)
(* TimeTracker.  Each method maps the tracker s, its arguments and the     *)
(* values its datetime.now() calls return to the tracker after the call    *)
(* (field s) and the returned value (field ret).                           *)
(***************************************************************************)
\* a stop_project that forgets to clear the live session
stop_project_keeps_session(s, auto_pause, now) ==
    IF ~Truthy(s.current_project) \/ s.current_start = None
    THEN [s |-> s, ret |-> None]
    ELSE [s |-> [s EXCEPT
                    !.entries = add_entry(@,
                        [ project_id |-> Get(s.current_project),
                          event      |-> IF auto_pause THEN "auto_pause" ELSE "stop",
                          timestamp  |-> now,
                          auto_pause |-> auto_pause ])],
          ret |-> Some(s.current_elapsed + (now - Get(s.current_start)))]

\* a stop_project that also forgets the auto-paused project when nothing runs
stop_project_resets_pause(s, auto_pause, now) ==
    IF ~Truthy(s.current_project) \/ s.current_start = None
    THEN [s |-> [s EXCEPT !.paused_project = None, !.pause_start = None],
          ret |-> None]
    ELSE [s |-> [s EXCEPT
                    !.entries = add_entry(@,
                        [ project_id |-> Get(s.current_project),
                          event      |-> IF auto_pause THEN "auto_pause" ELSE "stop",
                          timestamp  |-> now,
                          auto_pause |-> auto_pause ]),
                    !.current_project = None,
                    !.current_start   = None,
                    !.current_elapsed = 0],
          ret |-> Some(s.current_elapsed + (now - Get(s.current_start)))]

stop_project(s, auto_pause, now) ==
    IF ~Truthy(s.current_project) \/ s.current_start = None
    THEN [s |-> s, ret |-> None]
    ELSE [s |-> [s EXCEPT
                    !.entries = add_entry(@,
                        [ project_id |-> Get(s.current_project),
                          event      |-> IF auto_pause THEN "auto_pause" ELSE "stop",
                          timestamp  |-> now,
                          auto_pause |-> auto_pause ]),
                    !.current_project = None,
                    !.current_start   = None,
                    !.current_elapsed = 0],
          ret |-> Some(s.current_elapsed + (now - Get(s.current_start)))]

\* a start_project that does not stop the project that is running
start_project_no_stop(s, project_id, now1, now2) ==
    [s |-> [s EXCEPT
                !.current_project = Some(project_id),
                !.current_start   = Some(now2),
                !.current_elapsed = 0,
                !.entries = add_entry(@,
                    [ project_id |-> project_id,
                      event      |-> "start",
                      timestamp  |-> now2,
                      auto_pause |-> FALSE ])],
     ret |-> TRUE]

\* a start_project that records the new Start before it stops the old project
start_project_start_first(s, project_id, now1, now2) ==
    LET s1 == [s EXCEPT !.entries = add_entry(@,
                    [ project_id |-> project_id,
                      event      |-> "start",
                      timestamp  |-> now2,
                      auto_pause |-> FALSE ])]
        s2 == IF Truthy(s.current_project)
              THEN stop_project(s1, FALSE, now1).s
              ELSE s1
    IN  [s |-> [s2 EXCEPT
                    !.current_project = Some(project_id),
                    !.current_start   = Some(now2),
                    !.current_elapsed = 0],
         ret |-> TRUE]

\* now1 is read by the implicit stop_project, now2 by start_project itself
start_project(s, project_id, now1, now2) ==
    LET s1 == IF Truthy(s.current_project)
              THEN stop_project(s, FALSE, now1).s
              ELSE s
    IN  [s |-> [s1 EXCEPT
                    !.current_project = Some(project_id),
                    !.current_start   = Some(now2),
                    !.current_elapsed = 0,
                    !.entries = add_entry(@,
                        [ project_id |-> project_id,
                          event      |-> "start",
                          timestamp  |-> now2,
                          auto_pause |-> FALSE ])],
         ret |-> TRUE]

\* a pause_project that records a plain stop instead of an auto-pause
pause_project_plain_stop(s, now1, now2) ==
    IF Truthy(s.current_project)
    THEN [s |-> stop_project([s EXCEPT !.paused_project = s.current_project,
                                       !.pause_start    = Some(now1)],
                             FALSE, now2).s,
          ret |-> TRUE]
    ELSE [s |-> s, ret |-> FALSE]

\* a pause_project that takes its snapshot before it looks for a live session
pause_project_always_snapshots(s, now1, now2) ==
    LET s1 == [s EXCEPT !.paused_project = s.current_project,
                        !.pause_start    = Some(now1)]
    IN  IF Truthy(s.current_project)
        THEN [s |-> stop_project(s1, TRUE, now2).s, ret |-> TRUE]
        ELSE [s |-> s1, ret |-> FALSE]

\* now1 is read by pause_project itself, now2 by its stop_project
pause_project(s, now1, now2) ==
    IF Truthy(s.current_project)
    THEN [s |-> stop_project([s EXCEPT !.paused_project = s.current_project,
                                       !.pause_start    = Some(now1)],
                             TRUE, now2).s,
          ret |-> TRUE]
    ELSE [s |-> s, ret |-> FALSE]

\* the entry resume_paused_project records for a pause of pause_minutes minutes
pause_adjustment_entry(project_id, pause_end, pause_minutes) ==
    [ project_id  |-> project_id,
      event       |-> "pause_adjustment",
      timestamp   |-> pause_end,
      minutes     |-> -pause_minutes,
      description |-> <<"Pausa automatica por inatividade", pause_minutes>>,
      auto_pause  |-> TRUE ]

\* a resume_paused_project that records every pause, however short
resume_paused_project_every_pause(s, now1, now2, now3) ==
    IF ~Truthy(s.paused_project) \/ s.pause_start = None
    THEN [s |-> s, ret |-> FALSE]
    ELSE LET project_id    == Get(s.paused_project)
             pause_minutes == IntDivMinutes(now1 - Get(s.pause_start))
             s1 == [s EXCEPT !.paused_project = None, !.pause_start = None]
             s2 == [s1 EXCEPT !.entries = add_entry(@,
                        pause_adjustment_entry(project_id, now1, pause_minutes))]
         IN  start_project(s2, project_id, now2, now3)

\* a resume_paused_project that stops the running project when nothing is paused
resume_stops_when_not_paused(s, now1, now2, now3) ==
    IF ~Truthy(s.paused_project) \/ s.pause_start = None
    THEN [s |-> stop_project(s, FALSE, now1).s, ret |-> FALSE]
    ELSE LET project_id    == Get(s.paused_project)
             pause_minutes == IntDivMinutes(now1 - Get(s.pause_start))
             s1 == [s EXCEPT !.paused_project = None, !.pause_start = None]
             s2 == IF pause_minutes > 0
                   THEN [s1 EXCEPT !.entries = add_entry(@,
                            pause_adjustment_entry(project_id, now1, pause_minutes))]
                   ELSE s1
         IN  start_project(s2, project_id, now2, now3)

\* a resume_paused_project that leaves the paused state in place
resume_keeps_paused_state(s, now1, now2, now3) ==
    IF ~Truthy(s.paused_project) \/ s.pause_start = None
    THEN [s |-> s, ret |-> FALSE]
    ELSE LET project_id    == Get(s.paused_project)
             pause_minutes == IntDivMinutes(now1 - Get(s.pause_start))
             s2 == IF pause_minutes > 0
                   THEN [s EXCEPT !.entries = add_entry(@,
                            pause_adjustment_entry(project_id, now1, pause_minutes))]
                   ELSE s
         IN  start_project(s2, project_id, now2, now3)

\* now1 is pause_end; now2 and now3 are the reads of the start_project call
resume_paused_project(s, now1, now2, now3) ==
    IF ~Truthy(s.paused_project) \/ s.pause_start = None
    THEN [s |-> s, ret |-> FALSE]
    ELSE LET project_id    == Get(s.paused_project)
             pause_minutes == IntDivMinutes(now1 - Get(s.pause_start))
             s1 == [s EXCEPT !.paused_project = None, !.pause_start = None]
             s2 == IF pause_minutes > 0
                   THEN [s1 EXCEPT !.entries = add_entry(@,
                            pause_adjustment_entry(project_id, now1, pause_minutes))]
                   ELSE s1
         IN  start_project(s2, project_id, now2, now3)

\* an add_adjustment that records nothing for an adjustment of zero minutes
add_adjustment_skips_zero(s, project_id, minutes, description, date, now) ==
    IF minutes = 0
    THEN [s |-> s, ret |-> TRUE]
    ELSE [s |-> [s EXCEPT !.entries = add_entry(@,
                    [ project_id  |-> project_id,
                      event       |-> "adjustment",
                      timestamp   |-> IF date = None THEN now ELSE Get(date),
                      minutes     |-> minutes,
                      description |-> description,
                      auto_pause  |-> FALSE ])],
          ret |-> TRUE]

\* date is the optional date argument, now the clock read when it is None
add_adjustment(s, project_id, minutes, description, date, now) ==
    [s |-> [s EXCEPT !.entries = add_entry(@,
                [ project_id  |-> project_id,
                  event       |-> "adjustment",
                  timestamp   |-> IF date = None THEN now ELSE Get(date),
                  minutes     |-> minutes,
                  description |-> description,
                  auto_pause  |-> FALSE ])],
     ret |-> TRUE]

(***************************************************************************)
(* Range queries and the replay of calculate_project_time.                 *)
(***************************************************************************)
\* Storage.get_entries_by_date_range: the stored entries, in file order, whose
\* timestamp lies in [start_date, end_date]
get_entries_by_date_range(es, start_date, end_date) ==
    SelectSeq(es, LAMBDA entry :
        LET timestamp == fromisoformat(entry.timestamp)
        IN  start_date <= timestamp /\ timestamp <= end_date)

\* Storage.get_entries_by_project_and_date
get_entries_by_project_and_date(es, project_id, start_date, end_date) ==
    SelectSeq(get_entries_by_date_range(es, start_date, end_date),
              LAMBDA e : e.project_id = project_id)

\* entry.get("minutes", 0)
entry_minutes(entry) ==
    IF "minutes" \in DOMAIN entry THEN entry.minutes ELSE 0

\* a replay that takes only "stop" events as the end of a session
RECURSIVE replay_ignores_auto_pause(_, _, _, _)
replay_ignores_auto_pause(es, i, total_time, last_start) ==
    IF i > Len(es)
    THEN [total_time |-> total_time, last_start |-> last_start]
    ELSE LET entry     == es[i]
             timestamp == fromisoformat(entry.timestamp)
         IN  IF entry.event = "start"
             THEN replay_ignores_auto_pause(es, i + 1, total_time, Some(timestamp))
             ELSE IF entry.event = "stop" /\ last_start /= None
             THEN replay_ignores_auto_pause(es, i + 1,
                         total_time + (timestamp - Get(last_start)), None)
             ELSE IF entry.event \in {"adjustment", "pause_adjustment"}
             THEN replay_ignores_auto_pause(es, i + 1,
                         total_time + entry_minutes(entry) * SecondsPerMinute,
                         last_start)
             ELSE replay_ignores_auto_pause(es, i + 1, total_time, last_start)

\* a replay that counts an adjustment only while no session is open
RECURSIVE replay_adjustment_needs_idle(_, _, _, _)
replay_adjustment_needs_idle(es, i, total_time, last_start) ==
    IF i > Len(es)
    THEN [total_time |-> total_time, last_start |-> last_start]
    ELSE LET entry     == es[i]
             timestamp == fromisoformat(entry.timestamp)
         IN  IF entry.event = "start"
             THEN replay_adjustment_needs_idle(es, i + 1, total_time, Some(timestamp))
             ELSE IF entry.event \in {"stop", "auto_pause"} /\ last_start /= None
             THEN replay_adjustment_needs_idle(es, i + 1,
                         total_time + (timestamp - Get(last_start)), None)
             ELSE IF entry.event \in {"adjustment", "pause_adjustment"}
                     /\ last_start = None
             THEN replay_adjustment_needs_idle(es, i + 1,
                         total_time + entry_minutes(entry) * SecondsPerMinute,
                         last_start)
             ELSE replay_adjustment_needs_idle(es, i + 1, total_time, last_start)

\* a replay in which a Start that arrives while a Start is open is ignored
RECURSIVE replay_keeps_first_start(_, _, _, _)
replay_keeps_first_start(es, i, total_time, last_start) ==
    IF i > Len(es)
    THEN [total_time |-> total_time, last_start |-> last_start]
    ELSE LET entry     == es[i]
             timestamp == fromisoformat(entry.timestamp)
         IN  IF entry.event = "start"
             THEN replay_keeps_first_start(es, i + 1, total_time,
                      IF last_start = None THEN Some(timestamp) ELSE last_start)
             ELSE IF entry.event \in {"stop", "auto_pause"} /\ last_start /= None
             THEN replay_keeps_first_start(es, i + 1,
                      total_time + (timestamp - Get(last_start)), None)
             ELSE IF entry.event \in {"adjustment", "pause_adjustment"}
             THEN replay_keeps_first_start(es, i + 1,
                      total_time + entry_minutes(entry) * SecondsPerMinute,
                      last_start)
             ELSE replay_keeps_first_start(es, i + 1, total_time, last_start)

\* the loop of calculate_project_time from entry i on: total_time and last_start
\* after the last entry
RECURSIVE replay(_, _, _, _)
replay(es, i, total_time, last_start) ==
    IF i > Len(es)
    THEN [total_time |-> total_time, last_start |-> last_start]
    ELSE LET entry     == es[i]
             timestamp == fromisoformat(entry.timestamp)
         IN  IF entry.event = "start"
             THEN replay(es, i + 1, total_time, Some(timestamp))
             ELSE IF entry.event \in {"stop", "auto_pause"} /\ last_start /= None
             THEN replay(es, i + 1, total_time + (timestamp - Get(last_start)), None)
             ELSE IF entry.event \in {"adjustment", "pause_adjustment"}
             THEN replay(es, i + 1,
                         total_time + entry_minutes(entry) * SecondsPerMinute,
                         last_start)
             ELSE replay(es, i + 1, total_time, last_start)

\* a calculate_project_time that extends every unterminated Start to now
calculate_project_time_any_unterminated(s, project_id, start_date, end_date, now) ==
    LET r == replay(get_entries_by_project_and_date(s.entries, project_id,
                                                    start_date, end_date),
                    1, 0, None)
    IN  IF r.last_start /= None
        THEN r.total_time + (now - Get(r.last_start))
        ELSE r.total_time

\* now is the clock read after the replay
calculate_project_time(s, project_id, start_date, end_date, now) ==
    LET r == replay(get_entries_by_project_and_date(s.entries, project_id,
                                                    start_date, end_date),
                    1, 0, None)
    IN  IF r.last_start /= None /\ s.current_project = Some(project_id)
        THEN r.total_time + (now - Get(r.last_start))
        ELSE r.total_time

\* datetime.fromisoformat accepts a text whose fields are a date and a time of
\* day, and raises ValueError for any other
is_isoformat(text) ==
    /\ Len(text) = 4
    /\ text[1] >= 0
    /\ text[2] \in 0..23
    /\ text[3] \in 0..59
    /\ text[4] \in 0..59

\* what a call hands to its caller: the value it returns or the exception it
\* raises
Returned(v) == [ raised |-> None, value |-> Some(v) ]
Raised(e)   == [ raised |-> Some(e), value |-> None ]

\* a calculate_project_time that skips the entries whose timestamp does not
\* parse
calculate_project_time_skips(s, project_id, start_date, end_date, now) ==
    Returned(calculate_project_time(
        [s EXCEPT !.entries = SelectSeq(@, LAMBDA e : is_isoformat(e.timestamp))],
        project_id, start_date, end_date, now))

\* calculate_project_time as its caller meets it: get_entries_by_date_range
\* parses the timestamp of every stored entry, of any project, and nothing
\* catches the ValueError of the first text that does not parse
calculate_project_time_call(s, project_id, start_date, end_date, now) ==
    IF \E i \in 1..Len(s.entries) : ~is_isoformat(s.entries[i].timestamp)
    THEN Raised("ValueError")
    ELSE Returned(calculate_project_time(s, project_id, start_date, end_date, now))

(***************************************************************************)
(* TimeTracker.get_project_summary.  The stored projects are the ones      *)
(* Storage._ensure_files writes on first use, in the order of the file.    *)
(***************************************************************************)
\* Storage.get_projects: the "projects" list of projects.json
get_projects ==
    << [ id |-> "p1", name |-> "Projeto 1" ],
       [ id |-> "p2", name |-> "Projeto 2" ],
       [ id |-> "p3", name |-> "Projeto 3" ] >>

\* a sort that orders ascending and then reverses the list, which turns the
\* order of equal totals around
RECURSIVE sort_by_total_time_reversed(_)
sort_by_total_time_reversed(summary) ==
    IF summary = << >> THEN << >>
    ELSE LET rest == sort_by_total_time_reversed(SubSeq(summary, 1, Len(summary) - 1))
             e    == summary[Len(summary)]
             k    == Cardinality({ i \in 1..Len(rest) :
                                     rest[i].total_time > e.total_time })
         IN  SubSeq(rest, 1, k) \o << e >> \o SubSeq(rest, k + 1, Len(rest))

\* summary.sort(key=lambda x: x["total_time"], reverse=True): list.sort is
\* stable, and with reverse=True equal keys still keep their original order
RECURSIVE sort_by_total_time(_)
sort_by_total_time(summary) ==
    IF summary = << >> THEN << >>
    ELSE LET rest == sort_by_total_time(SubSeq(summary, 1, Len(summary) - 1))
             e    == summary[Len(summary)]
             k    == Cardinality({ i \in 1..Len(rest) :
                                     rest[i].total_time >= e.total_time })
         IN  SubSeq(rest, 1, k) \o << e >> \o SubSeq(rest, k + 1, Len(rest))

\* total_hours is total_seconds() / 3600, kept as the fraction it is
get_project_summary(s, start_date, end_date, now) ==
    LET projects == get_projects
        summary  == [ i \in 1..Len(projects) |->
                        LET project_id == projects[i].id
                            total_time == calculate_project_time(s, project_id,
                                              start_date, end_date, now)
                        IN  [ project_id   |-> project_id,
                              project_name |-> projects[i].name,
                              total_time   |-> total_time,
                              total_hours  |-> << total_time, SecondsPerHour >> ] ]
    IN  sort_by_total_time(summary)

(***************************************************************************)
(* The daily breakdown of ReportExporter.export_daily_breakdown_to_csv     *)
(* (src/utils/export.py).  A date text "%Y-%m-%d" is the number of its     *)
(* day; daily_totals is a function from the dates it holds to functions    *)
(* from the projects a date holds to seconds.                              *)
(***************************************************************************)
\* ts.strftime("%Y-%m-%d")
strftime_date(t) == t \div SecondsPerDay

\* t.replace(hour=0, minute=0, second=0, microsecond=0)
midnight(t) == (t \div SecondsPerDay) * SecondsPerDay

\* the order of two timestamp texts as strings
text_leq(a, b) ==
    \/ a[1] < b[1]
    \/ a[1] = b[1] /\ a[2] < b[2]
    \/ a[1] = b[1] /\ a[2] = b[2] /\ a[3] < b[3]
    \/ a[1] = b[1] /\ a[2] = b[2] /\ a[3] = b[3] /\ a[4] <= b[4]

\* proj_entries.sort(key=lambda e: e["timestamp"]): a stable sort
RECURSIVE sort_by_timestamp(_)
sort_by_timestamp(es) ==
    IF es = << >> THEN << >>
    ELSE LET rest == sort_by_timestamp(SubSeq(es, 1, Len(es) - 1))
             e    == es[Len(es)]
             k    == Cardinality({ i \in 1..Len(rest) :
                                     text_leq(rest[i].timestamp, e.timestamp) })
         IN  SubSeq(rest, 1, k) \o << e >> \o SubSeq(rest, k + 1, Len(rest))

\* {}: a date that holds no project yet
NoTotals == [ p \in {} |-> 0 ]

\* if date_str not in daily_totals: daily_totals[date_str] = {}
with_date(daily_totals, date_str) ==
    IF date_str \in DOMAIN daily_totals
    THEN daily_totals
    ELSE daily_totals @@ (date_str :> NoTotals)

\* daily_totals[date_str][project_id] += duration, after the two
\* initialisations that precede it in the code
credit(daily_totals, date_str, project_id, duration) ==
    LET dt  == with_date(daily_totals, date_str)
        row == IF project_id \in DOMAIN dt[date_str]
               THEN dt[date_str]
               ELSE dt[date_str] @@ (project_id :> 0)
    IN  [dt EXCEPT ![date_str] = [row EXCEPT ![project_id] = @ + duration]]

\* a split that credits the whole session to the day it started on
split_session_to_first_day(daily_totals, project_id, current, last_start, ts) ==
    credit(daily_totals, strftime_date(last_start), project_id, ts - last_start)

\* the while loop that splits a session from last_start to ts by day; current
\* is the loop variable
RECURSIVE split_session(_, _, _, _, _)
split_session(daily_totals, project_id, current, last_start, ts) ==
    LET curr_date_str  == strftime_date(current)
        start_date_str == strftime_date(last_start)
        end_date_str   == strftime_date(ts)
        next_day       == midnight(current + SecondsPerDay)
    IN  IF ~(curr_date_str <= end_date_str)
        THEN daily_totals
        ELSE IF curr_date_str = end_date_str
        THEN credit(daily_totals, curr_date_str, project_id,
                    IF curr_date_str = start_date_str
                    THEN ts - last_start
                    ELSE ts - midnight(ts))
        ELSE IF curr_date_str = start_date_str
        THEN split_session(
                 credit(daily_totals, curr_date_str, project_id, next_day - current),
                 project_id, next_day, last_start, ts)
        ELSE split_session(
                 credit(daily_totals, curr_date_str, project_id, SecondsPerDay),
                 project_id, next_day, last_start, ts)

\* a loop that books an adjustment on the day the open session started
RECURSIVE daily_replay_adjusts_session_day(_, _, _, _, _)
daily_replay_adjusts_session_day(es, i, project_id, daily_totals, last_start) ==
    IF i > Len(es)
    THEN daily_totals
    ELSE LET entry    == es[i]
             ts_      == fromisoformat(entry.timestamp)
             date_str == strftime_date(ts_)
             dt       == with_date(daily_totals, date_str)
         IN  IF entry.event = "start"
             THEN daily_replay_adjusts_session_day(es, i + 1, project_id, dt, Some(ts_))
             ELSE IF entry.event \in {"stop", "auto_pause"} /\ last_start /= None
             THEN daily_replay_adjusts_session_day(es, i + 1, project_id,
                      IF strftime_date(Get(last_start)) = date_str
                      THEN credit(dt, date_str, project_id, ts_ - Get(last_start))
                      ELSE split_session(dt, project_id, Get(last_start),
                                         Get(last_start), ts_),
                      None)
             ELSE IF entry.event \in {"adjustment", "pause_adjustment"}
             THEN daily_replay_adjusts_session_day(es, i + 1, project_id,
                      credit(dt,
                             IF last_start = None THEN date_str
                             ELSE strftime_date(Get(last_start)),
                             project_id,
                             entry_minutes(entry) * SecondsPerMinute),
                      last_start)
             ELSE daily_replay_adjusts_session_day(es, i + 1, project_id, dt, last_start)

\* the loop over the sorted entries of one project, from entry i on
RECURSIVE daily_replay(_, _, _, _, _)
daily_replay(es, i, project_id, daily_totals, last_start) ==
    IF i > Len(es)
    THEN daily_totals
    ELSE LET entry    == es[i]
             ts_      == fromisoformat(entry.timestamp)
             date_str == strftime_date(ts_)
             dt       == with_date(daily_totals, date_str)
         IN  IF entry.event = "start"
             THEN daily_replay(es, i + 1, project_id, dt, Some(ts_))
             ELSE IF entry.event \in {"stop", "auto_pause"} /\ last_start /= None
             THEN daily_replay(es, i + 1, project_id,
                      IF strftime_date(Get(last_start)) = date_str
                      THEN credit(dt, date_str, project_id, ts_ - Get(last_start))
                      ELSE split_session(dt, project_id, Get(last_start),
                                         Get(last_start), ts_),
                      None)
             ELSE IF entry.event \in {"adjustment", "pause_adjustment"}
             THEN daily_replay(es, i + 1, project_id,
                      credit(dt, date_str, project_id,
                             entry_minutes(entry) * SecondsPerMinute),
                      last_start)
             ELSE daily_replay(es, i + 1, project_id, dt, last_start)

\* the keys of entries_by_project, in the order the entries bring them in
RECURSIVE project_keys(_, _, _)
project_keys(es, i, keys) ==
    IF i > Len(es) THEN keys
    ELSE project_keys(es, i + 1,
             IF \E k \in 1..Len(keys) : keys[k] = es[i].project_id
             THEN keys
             ELSE Append(keys, es[i].project_id))

\* the loop over entries_by_project, from key k on
RECURSIVE daily_totals_from(_, _, _, _)
daily_totals_from(es, keys, k, daily_totals) ==
    IF k > Len(keys) THEN daily_totals
    ELSE LET proj_entries ==
                 sort_by_timestamp(SelectSeq(es, LAMBDA e : e.project_id = keys[k]))
         IN  daily_totals_from(es, keys, k + 1,
                 daily_replay(proj_entries, 1, keys[k], daily_totals, None))

\* daily_totals when the rows are written
daily_totals_of(es) ==
    daily_totals_from(es, project_keys(es, 1, << >>), 1, [ d \in {} |-> NoTotals ])

\* the rows of the table: one per date of daily_totals, one column per project
\* of the entries, daily_totals[date_str].get(pid, timedelta())
daily_rows(es) ==
    LET daily_totals == daily_totals_of(es)
        project_ids  == { es[i].project_id : i \in 1..Len(es) }
    IN  [ date_str \in DOMAIN daily_totals |->
            [ pid \in project_ids |->
                IF pid \in DOMAIN daily_totals[date_str]
                THEN daily_totals[date_str][pid]
                ELSE 0 ] ]

(***************************************************************************)
(* The state machine: one action per call of a TimeTracker method.         *)
(***************************************************************************)
\* a thread that is in no call
Resting == [ pc |-> "idle", op |-> "none", project_id |-> None,
             auto_pause |-> FALSE, stop_time |-> 0, pause_end |-> 0,
             raised |-> None, ret |-> None ]

Init ==
    /\ clock = 0
    /\ current_project = None
    /\ current_start = None
    /\ current_elapsed = 0
    /\ paused_project = None
    /\ pause_start = None
    /\ entries = << >>
    /\ adjustments = 0
    /\ call = [ op |-> "init", project_id |-> None, auto_pause |-> FALSE,
                minutes |-> 0, ret |-> None, at |-> <<0>>,
                pre |-> [ current_project |-> None, current_start |-> None,
                          current_elapsed |-> 0, paused_project |-> None,
                          pause_start |-> None, entries |-> << >> ] ]
    /\ file_valid = TRUE
    /\ writer = [ t \in Threads |-> [ pc |-> "idle", local |-> << >>,
                                      entry |-> None, calls |-> 0 ] ]
    /\ added = << >>
    /\ observed = None
    /\ answer = None
    /\ caller = [ t \in Threads |-> Resting ]
    /\ last_activity = 0
    /\ is_idle = FALSE
    /\ running = FALSE
    /\ lock = None
    /\ monitor = [ pc |-> "unstarted", last_check |-> 0, now |-> 0,
                   time_since_last_check |-> 0, polls |-> 0, silent |-> TRUE,
                   tick |-> [ was_idle |-> FALSE, from |-> 0, calls |-> 0,
                              quiet |-> TRUE, failed |-> FALSE ] ]
    /\ listener = [ pc |-> "unstarted", events |-> 0, now |-> 0,
                    was_idle |-> FALSE ]
    /\ app = "constructed"
    /\ invoked = << >>

\* the tracker after a call
Install(r) ==
    /\ current_project' = r.s.current_project
    /\ current_start'   = r.s.current_start
    /\ current_elapsed' = r.s.current_elapsed
    /\ paused_project'  = r.s.paused_project
    /\ pause_start'     = r.s.pause_start
    /\ entries'         = r.s.entries

\* the record of a call; at lists the values its datetime.now() calls may return
Called(op, project_id, auto_pause, minutes, r, at) ==
    call' = [ op |-> op, project_id |-> project_id, auto_pause |-> auto_pause,
              minutes |-> minutes, ret |-> r.ret, at |-> at,
              pre |-> Tracker ]

CanCall == Len(entries) < MaxLog

\* time passes between calls
Tick ==
    /\ clock < MaxTime
    /\ clock' = clock + Quantum
    /\ UNCHANGED << current_project, current_start, current_elapsed,
                    paused_project, pause_start, entries, adjustments, call >>
    /\ UNCHANGED store_vars
    /\ UNCHANGED << answer, caller, idle_vars >>

\* start_project reads the clock in its implicit stop_project (if a project
\* is running) and once more for the new session
StartProject(project_id) ==
    /\ CanCall
    /\ \E d \in (IF Truthy(current_project) THEN IntraDelays ELSE {0}) :
          LET now1 == clock
              now2 == now1 + d
              r    == start_project(Tracker, project_id, now1, now2)
          IN  /\ Install(r)
              /\ Called("start", Some(project_id), FALSE, 0, r, <<now1, now2>>)
              /\ clock' = now2
    /\ UNCHANGED adjustments
    /\ UNCHANGED store_vars
    /\ UNCHANGED << answer, caller, idle_vars >>

StopProject(auto_pause) ==
    /\ CanCall
    /\ LET r == stop_project(Tracker, auto_pause, clock)
       IN  /\ Install(r)
           /\ Called("stop", None, auto_pause, 0, r, <<clock>>)
    /\ UNCHANGED << clock, adjustments >>
    /\ UNCHANGED store_vars
    /\ UNCHANGED << answer, caller, idle_vars >>

\* pause_project reads the clock for pause_start and again in stop_project
PauseProject ==
    /\ CanCall
    /\ \E d \in (IF Truthy(current_project) THEN IntraDelays ELSE {0}) :
          LET now1 == clock
              now2 == now1 + d
              r    == pause_project(Tracker, now1, now2)
          IN  /\ Install(r)
              /\ Called("pause", None, FALSE, 0, r, <<now1, now2>>)
              /\ clock' = now2
    /\ UNCHANGED adjustments
    /\ UNCHANGED store_vars
    /\ UNCHANGED << answer, caller, idle_vars >>

\* resume_paused_project reads the clock for pause_end, then start_project
\* reads it as in StartProject
ResumePausedProject ==
    /\ CanCall
    /\ LET paused == Truthy(paused_project) /\ pause_start /= None
       IN  \E d1 \in (IF paused /\ Truthy(current_project) THEN IntraDelays ELSE {0}),
              d2 \in (IF paused THEN IntraDelays ELSE {0}) :
              LET now1 == clock
                  now2 == now1 + d1
                  now3 == now2 + d2
                  r    == resume_paused_project(Tracker, now1, now2, now3)
              IN  /\ Install(r)
                  /\ Called("resume", None, FALSE, 0, r, <<now1, now2, now3>>)
                  /\ clock' = now3
    /\ UNCHANGED adjustments
    /\ UNCHANGED store_vars
    /\ UNCHANGED << answer, caller, idle_vars >>

\* the adjustment screen passes no date; a caller may pass any earlier one
AddAdjustment(project_id, minutes, date) ==
    /\ CanCall
    /\ adjustments < MaxAdj
    /\ LET r == add_adjustment(Tracker, project_id, minutes, "", date, clock)
       IN  /\ Install(r)
           /\ Called("add_adjustment", Some(project_id), FALSE, minutes, r, <<clock>>)
    /\ adjustments' = adjustments + 1
    /\ UNCHANGED clock
    /\ UNCHANGED store_vars
    /\ UNCHANGED << answer, caller, idle_vars >>

Next ==
    \/ Tick
    \/ \E p \in Projects : StartProject(p)
    \/ \E a \in BOOLEAN : StopProject(a)
    \/ PauseProject
    \/ ResumePausedProject
    \/ \E p \in Projects, m \in AdjMinutes, date \in {None, Some(0)} :
          AddAdjustment(p, m, date)

Spec == Init /\ [][Next]_vars

(***************************************************************************)
(* The ledger without the record of the last call: the logs and trackers   *)
(* that the reconstruction queries are evaluated on.                       *)
(***************************************************************************)
CanGrow == Len(entries) < MaxReplayLog

LedgerTick ==
    /\ clock < MaxTime
    /\ clock' = clock + Quantum
    /\ UNCHANGED << current_project, current_start, current_elapsed,
                    paused_project, pause_start, entries, adjustments, call >>
    /\ UNCHANGED store_vars
    /\ UNCHANGED << answer, caller, idle_vars >>

LedgerStart(project_id) ==
    /\ CanGrow
    /\ \E d \in (IF Truthy(current_project) THEN IntraDelays ELSE {0}) :
          /\ Install(start_project(Tracker, project_id, clock, clock + d))
          /\ clock' = clock + d
    /\ UNCHANGED << adjustments, call >>
    /\ UNCHANGED store_vars
    /\ UNCHANGED << answer, caller, idle_vars >>

LedgerStop(auto_pause) ==
    /\ CanGrow
    /\ Install(stop_project(Tracker, auto_pause, clock))
    /\ UNCHANGED << clock, adjustments, call >>
    /\ UNCHANGED store_vars
    /\ UNCHANGED << answer, caller, idle_vars >>

LedgerPause ==
    /\ CanGrow
    /\ \E d \in (IF Truthy(current_project) THEN IntraDelays ELSE {0}) :
          /\ Install(pause_project(Tracker, clock, clock + d))
          /\ clock' = clock + d
    /\ UNCHANGED << adjustments, call >>
    /\ UNCHANGED store_vars
    /\ UNCHANGED << answer, caller, idle_vars >>

LedgerResume ==
    /\ CanGrow
    /\ LET paused == Truthy(paused_project) /\ pause_start /= None
       IN  \E d1 \in (IF paused /\ Truthy(current_project) THEN IntraDelays ELSE {0}),
              d2 \in (IF paused THEN IntraDelays ELSE {0}) :
              /\ Install(resume_paused_project(Tracker, clock, clock + d1,
                                               clock + d1 + d2))
              /\ clock' = clock + d1 + d2
    /\ UNCHANGED << adjustments, call >>
    /\ UNCHANGED store_vars
    /\ UNCHANGED << answer, caller, idle_vars >>

LedgerAdjust(project_id, minutes, date) ==
    /\ CanGrow
    /\ adjustments < MaxAdj
    /\ Install(add_adjustment(Tracker, project_id, minutes, "", date, clock))
    /\ adjustments' = adjustments + 1
    /\ UNCHANGED << clock, call >>
    /\ UNCHANGED store_vars
    /\ UNCHANGED << answer, caller, idle_vars >>

LedgerNext ==
    \/ LedgerTick
    \/ \E p \in Projects : LedgerStart(p)
    \/ \E a \in BOOLEAN : LedgerStop(a)
    \/ LedgerPause
    \/ LedgerResume
    \/ \E p \in Projects, m \in AdjMinutes, date \in {None, Some(0)} :
          LedgerAdjust(p, m, date)

LedgerSpec == Init /\ [][LedgerNext]_vars

(***************************************************************************)
(* The store used by two threads at once.  The main thread records events  *)
(* from the user interface (MainScreen.toggle_project) while the thread of *)
(* the idle detector records them from its callbacks (BatePontoApp._on_idle*)
(* and _on_active); neither Storage nor TimeTracker takes a lock.  A call  *)
(* of add_entry is three steps: get_entries reads the file, open(.., 'w')  *)
(* empties it, json.dump and the close write the new text.  When two       *)
(* threads have the file open for writing, the text of the one that closes *)
(* last is taken as the outcome.                                           *)
(***************************************************************************)
\* Storage._load_json: the parsed file, or {} (None here) when the text is not
\* complete JSON
load_json(valid, es) == IF valid THEN Some(es) ELSE None

\* Storage.get_entries: data.get("entries", [])
get_entries(valid, es) ==
    IF load_json(valid, es) = None THEN << >> ELSE Get(load_json(valid, es))

\* the events a thread records
ThreadEvents(t) ==
    IF t = "main" THEN {"start", "stop"} ELSE {"auto_pause", "start"}

\* entries = self.get_entries()
AddEntryLoad(t, project_id, event) ==
    /\ writer[t].pc = "idle"
    /\ writer[t].calls < MaxAppends
    /\ writer' = [writer EXCEPT ![t] =
                    [ pc    |-> "loaded",
                      local |-> get_entries(file_valid, entries),
                      entry |-> Some([ project_id |-> project_id,
                                       event      |-> event,
                                       timestamp  |-> clock,
                                       auto_pause |-> (event = "auto_pause") ]),
                      calls |-> @.calls + 1 ]]
    /\ UNCHANGED << entries, file_valid, added, observed >>
    /\ UNCHANGED tracker_vars
    /\ UNCHANGED << answer, caller, idle_vars >>

\* _save_json: open(filepath, 'w') leaves an empty file
AddEntryOpen(t) ==
    /\ writer[t].pc = "loaded"
    /\ entries' = << >>
    /\ file_valid' = FALSE
    /\ writer' = [writer EXCEPT ![t].pc = "opened"]
    /\ UNCHANGED << added, observed >>
    /\ UNCHANGED tracker_vars
    /\ UNCHANGED << answer, caller, idle_vars >>

\* _save_json: json.dump and the close write the list with the new entry
AddEntryDump(t) ==
    /\ writer[t].pc = "opened"
    /\ entries' = add_entry(writer[t].local, Get(writer[t].entry))
    /\ file_valid' = TRUE
    /\ added' = Append(added, entries'[Len(entries')])
    /\ writer' = [writer EXCEPT ![t].pc = "idle", ![t].local = << >>,
                                ![t].entry = None]
    /\ UNCHANGED observed
    /\ UNCHANGED tracker_vars
    /\ UNCHANGED << answer, caller, idle_vars >>

\* a report query reads the log while the writers run
ReadEntries ==
    /\ observed' = Some([ partial |-> ~file_valid,
                          entries |-> get_entries(file_valid, entries),
                          added   |-> added ])
    /\ UNCHANGED << entries, file_valid, writer, added >>
    /\ UNCHANGED tracker_vars
    /\ UNCHANGED << answer, caller, idle_vars >>

StoreNext ==
    \/ \E t \in Threads, p \in Projects :
          \E event \in ThreadEvents(t) : AddEntryLoad(t, p, event)
    \/ \E t \in Threads : AddEntryOpen(t)
    \/ \E t \in Threads : AddEntryDump(t)
    \/ ReadEntries

StoreSpec == Init /\ [][StoreNext]_vars

(***************************************************************************)
(* Queries over a log that the program finds on disk.  time_entries.json   *)
(* is a text file that outlives the process: its entries are whatever an   *)
(* earlier run, another version or an editor left there, and a timestamp   *)
(* text among them need not parse.                                         *)
(***************************************************************************)
\* number of entries of the file that is found
MaxFound == 3

\* the timestamp texts of the found entries; the last one has 24 in its hour
\* field
FoundTexts == { isoformat(0), isoformat(Quantum), << 0, 24, 0, 0 >> }

\* the file holds one more entry
FoundEntry(project_id, event, text) ==
    /\ Len(entries) < MaxFound
    /\ answer = None
    /\ entries' = Append(entries, [ project_id |-> project_id,
                                    event      |-> event,
                                    timestamp  |-> text,
                                    auto_pause |-> FALSE ])
    /\ UNCHANGED << file_valid, writer, added, observed, answer, caller >>
    /\ UNCHANGED tracker_vars
    /\ UNCHANGED idle_vars

\* a report asks for the time of a project; no project has been started since
\* the program came up
QueryProjectTime(project_id, start_date, end_date) ==
    /\ start_date <= end_date
    /\ answer' = Some([ log        |-> entries,
                        project_id |-> project_id,
                        start_date |-> start_date,
                        end_date   |-> end_date,
                        outcome    |-> calculate_project_time_call(
                                           Tracker, project_id,
                                           start_date, end_date, clock) ])
    /\ UNCHANGED entries
    /\ UNCHANGED store_vars
    /\ UNCHANGED tracker_vars
    /\ UNCHANGED caller
    /\ UNCHANGED idle_vars

QueryNext ==
    \/ \E p \in Projects, event \in {"start", "stop"}, text \in FoundTexts :
          FoundEntry(p, event, text)
    \/ \E p \in Projects, a, b \in {0, Quantum} : QueryProjectTime(p, a, b)

QuerySpec == Init /\ [][QueryNext]_vars

(***************************************************************************)
(* The idle detector (src/utils/idle_detector.py).  Three threads use it:  *)
(* the main thread constructs, starts and stops it (BatePontoApp.__init__  *)
(* and _cleanup), the monitor thread runs _check_idle, and the thread of   *)
(* the pynput listeners runs _on_activity for every keyboard or mouse      *)
(* event.  Both callbacks are set before start (main.py:39-40).  The wall  *)
(* clock moves while the monitor thread is in time.sleep: by the second of *)
(* a normal poll, or by more when the system was suspended.                *)
(***************************************************************************)
idle_timeout_minutes == 5
\* timedelta(minutes=idle_timeout_minutes), in seconds
idle_timeout == idle_timeout_minutes * SecondsPerMinute
\* the poll-to-poll time above which the system is taken to have slept
sleep_threshold == 5
\* time.sleep(1)
poll_interval == 1

\* how long the monitor thread may find it has slept: a normal poll, a
\* suspension just over the threshold, one just under the idle timeout and one
\* that reaches it
SleepDurations ==
    { poll_interval, sleep_threshold + 1, idle_timeout - 1, idle_timeout }

\* the fields of the detector that the lock guards
Detector == [ last_activity |-> last_activity, is_idle |-> is_idle ]

\* an _on_activity that invokes the active callback on every event
on_activity_always_calls(d, now) ==
    [ d    |-> [ last_activity |-> now, is_idle |-> FALSE ],
      call |-> TRUE ]

\* the locked block of _on_activity: the detector after it, and whether the
\* active callback is invoked
on_activity(d, now) ==
    [ d    |-> [ last_activity |-> now, is_idle |-> FALSE ],
      call |-> d.is_idle ]

\* a sleep check that backdates last_activity to the time of the wake-up
check_sleep_backdates_to_now(d, last_check, time_since_last_check) ==
    IF /\ time_since_last_check > sleep_threshold
       /\ ~d.is_idle
       /\ time_since_last_check >= idle_timeout
    THEN [ d    |-> [ last_activity |-> last_check + time_since_last_check,
                      is_idle |-> TRUE ],
           call |-> TRUE ]
    ELSE [ d |-> d, call |-> FALSE ]

\* the first locked block of a tick of _check_idle: the system slept
check_sleep(d, last_check, time_since_last_check) ==
    IF /\ time_since_last_check > sleep_threshold
       /\ ~d.is_idle
       /\ time_since_last_check >= idle_timeout
    THEN [ d    |-> [ last_activity |-> last_check, is_idle |-> TRUE ],
           call |-> TRUE ]
    ELSE [ d |-> d, call |-> FALSE ]

\* an elapsed check that does not look at is_idle
check_elapsed_refires(d, now) ==
    IF now - d.last_activity >= idle_timeout
    THEN [ d |-> [ d EXCEPT !.is_idle = TRUE ], call |-> TRUE ]
    ELSE [ d |-> d, call |-> FALSE ]

\* the second locked block of a tick of _check_idle
check_elapsed(d, now) ==
    IF ~d.is_idle /\ now - d.last_activity >= idle_timeout
    THEN [ d |-> [ d EXCEPT !.is_idle = TRUE ], call |-> TRUE ]
    ELSE [ d |-> d, call |-> FALSE ]

\* the detector after a locked block
InstallDetector(r) ==
    /\ last_activity' = r.d.last_activity
    /\ is_idle' = r.d.is_idle

\* the record of a callback invocation
Invocation(callback, thread, block) ==
    [ callback |-> callback,
      by       |-> thread,
      block    |-> block,
      at       |-> clock,
      poll     |-> monitor.polls,
      was_idle |-> is_idle,
      elapsed  |-> clock - last_activity,
      since    |-> monitor.time_since_last_check,
      stopped  |-> app = "stopped" ]

\* what no step of the detector touches
IdleFrame ==
    /\ UNCHANGED << current_project, current_start, current_elapsed,
                    paused_project, pause_start, adjustments, call >>
    /\ UNCHANGED entries
    /\ UNCHANGED store_vars
    /\ UNCHANGED << answer, caller >>

\* IdleDetector.start
DetectorStart ==
    /\ app = "constructed"
    /\ ~running
    /\ running' = TRUE
    /\ listener' = [listener EXCEPT !.pc = "listening"]
    /\ monitor' = [monitor EXCEPT !.pc = "begin"]
    /\ app' = "started"
    /\ UNCHANGED << clock, last_activity, is_idle, lock, invoked >>
    /\ IdleFrame

\* _check_idle: last_check = datetime.now()
MonitorBegin ==
    /\ monitor.pc = "begin"
    /\ monitor' = [monitor EXCEPT !.pc = "test", !.last_check = clock]
    /\ UNCHANGED << clock, last_activity, is_idle, running, lock, listener, app,
                    invoked >>
    /\ IdleFrame

\* while self.running: now = datetime.now(); time_since_last_check; the test
\* against the threshold.  When the system did not sleep the tick goes on at
\* last_check = now.  The fields of tick describe the tick for the properties:
\* is_idle when it began, the last_check it began with, the idle callbacks it
\* invoked, whether no activity was notified since the previous tick began,
\* and whether its callback raised
MonitorTest ==
    /\ monitor.pc = "test"
    /\ IF ~running
       THEN monitor' = [monitor EXCEPT !.pc = "done"]
       ELSE LET now == clock
                time_since_last_check == now - monitor.last_check
                slept == time_since_last_check > sleep_threshold
            IN  monitor' = [monitor EXCEPT
                    !.pc = IF slept THEN "sleep_check" ELSE "elapsed_check",
                    !.now = now,
                    !.time_since_last_check = time_since_last_check,
                    !.last_check = IF slept THEN @ ELSE now,
                    !.silent = TRUE,
                    !.tick = [ was_idle |-> is_idle,
                               from     |-> monitor.last_check,
                               calls    |-> 0,
                               quiet    |-> monitor.silent,
                               failed   |-> FALSE ]]
    /\ UNCHANGED << clock, last_activity, is_idle, running, lock, listener, app,
                    invoked >>
    /\ IdleFrame

\* the block under the lock at lines 62-73; the idle callback runs inside it
MonitorSleepCheck ==
    /\ monitor.pc = "sleep_check"
    /\ lock = None
    /\ LET r == check_sleep(Detector, monitor.last_check,
                            monitor.time_since_last_check)
       IN  /\ InstallDetector(r)
           /\ IF r.call
              THEN /\ lock' = Some("monitor")
                   /\ invoked' = Append(invoked,
                                    Invocation("idle", "monitor", "sleep_check"))
                   /\ monitor' = [monitor EXCEPT !.pc = "sleep_callback",
                                                 !.tick.calls = @ + 1]
              ELSE /\ UNCHANGED << lock, invoked >>
                   /\ monitor' = [monitor EXCEPT !.pc = "elapsed_check",
                                                 !.last_check = monitor.now]
    /\ UNCHANGED << clock, running, listener, app >>
    /\ IdleFrame

\* the block under the lock at lines 77-83; the idle callback runs inside it
MonitorElapsedCheck ==
    /\ monitor.pc = "elapsed_check"
    /\ lock = None
    /\ LET r == check_elapsed(Detector, clock)
       IN  /\ InstallDetector(r)
           /\ IF r.call
              THEN /\ lock' = Some("monitor")
                   /\ invoked' = Append(invoked,
                                    Invocation("idle", "monitor", "elapsed_check"))
                   /\ monitor' = [monitor EXCEPT !.pc = "elapsed_callback",
                                                 !.tick.calls = @ + 1]
              ELSE /\ UNCHANGED << lock, invoked >>
                   /\ monitor' = [monitor EXCEPT !.pc = "sleep"]
    /\ UNCHANGED << clock, running, listener, app >>
    /\ IdleFrame

\* the idle callback returns, or raises: nothing in _check_idle catches the
\* exception, which leaves the with block, releasing the lock, and ends the
\* thread
MonitorCallbackEnds(raises) ==
    /\ monitor.pc \in {"sleep_callback", "elapsed_callback"}
    /\ lock' = None
    /\ monitor' =
          IF raises
          THEN [monitor EXCEPT !.pc = "dead", !.tick.failed = TRUE]
          ELSE IF monitor.pc = "sleep_callback"
          THEN [monitor EXCEPT !.pc = "elapsed_check", !.last_check = monitor.now]
          ELSE [monitor EXCEPT !.pc = "sleep"]
    /\ UNCHANGED << clock, last_activity, is_idle, running, listener, app,
                    invoked >>
    /\ IdleFrame

\* time.sleep(1): the thread wakes after the poll interval or, when the system
\* was suspended, later
MonitorSleep(duration) ==
    /\ monitor.pc = "sleep"
    /\ monitor.polls < MaxPolls \/ ~running
    /\ running \/ duration = poll_interval
    /\ clock' = clock + duration
    /\ monitor' = [monitor EXCEPT !.pc = "test", !.polls = @ + 1]
    /\ UNCHANGED << last_activity, is_idle, running, lock, listener, app,
                    invoked >>
    /\ IdleFrame

\* the wall clock goes on after the monitor thread has ended
Elapse(duration) ==
    /\ monitor.pc \in {"dead", "done"}
    /\ monitor.polls < MaxPolls
    /\ clock' = clock + duration
    /\ monitor' = [monitor EXCEPT !.polls = @ + 1]
    /\ UNCHANGED << last_activity, is_idle, running, lock, listener, app,
                    invoked >>
    /\ IdleFrame

\* a keyboard or mouse event: the listener thread calls _on_activity
InputEvent ==
    /\ listener.pc = "listening"
    /\ app = "started"
    /\ listener.events < MaxEvents
    /\ listener' = [listener EXCEPT !.pc = "on_activity", !.events = @ + 1]
    /\ UNCHANGED << clock, last_activity, is_idle, running, lock, monitor, app,
                    invoked >>
    /\ IdleFrame

\* the block under the lock at lines 34-41; the active callback runs inside it
ListenerActivity ==
    /\ listener.pc = "on_activity"
    /\ lock = None
    /\ LET r == on_activity(Detector, clock)
       IN  /\ InstallDetector(r)
           /\ IF r.call
              THEN /\ lock' = Some("listener")
                   /\ invoked' = Append(invoked,
                                    Invocation("active", "listener", "on_activity"))
                   /\ listener' = [listener EXCEPT !.pc = "active_callback",
                                                   !.now = clock,
                                                   !.was_idle = is_idle]
              ELSE /\ UNCHANGED << lock, invoked >>
                   /\ listener' = [listener EXCEPT !.pc = "listening",
                                                   !.now = clock,
                                                   !.was_idle = is_idle]
    /\ monitor' = [monitor EXCEPT !.tick.quiet = FALSE, !.silent = FALSE]
    /\ UNCHANGED << clock, running, app >>
    /\ IdleFrame

\* the active callback returns
ListenerCallbackEnds ==
    /\ listener.pc = "active_callback"
    /\ lock' = None
    /\ listener' = [listener EXCEPT !.pc = "listening"]
    /\ UNCHANGED << clock, last_activity, is_idle, running, monitor, app,
                    invoked >>
    /\ IdleFrame

\* a stop that joins the thread without clearing running
DetectorStopKeepsRunning ==
    /\ app = "started"
    /\ app' = "joining"
    /\ UNCHANGED << clock, last_activity, is_idle, running, lock, monitor,
                    listener, invoked >>
    /\ IdleFrame

\* IdleDetector.stop up to the join: running = False, and the listeners are
\* told to stop; no call waits for the listener thread
DetectorStop ==
    /\ app = "started"
    /\ running' = FALSE
    /\ app' = "joining"
    /\ UNCHANGED << clock, last_activity, is_idle, lock, monitor, listener,
                    invoked >>
    /\ IdleFrame

\* monitor_thread.join(timeout=2): the thread has ended, or the two seconds
\* pass while it is inside a callback or waits for the lock that the listener
\* thread holds across its callback
DetectorJoin ==
    /\ app = "joining"
    /\ \/ monitor.pc \in {"done", "dead"}
       \/ monitor.pc \in {"sleep_callback", "elapsed_callback"}
       \/ /\ monitor.pc \in {"sleep_check", "elapsed_check"}
          /\ lock = Some("listener")
    /\ app' = "stopped"
    /\ UNCHANGED << clock, last_activity, is_idle, running, lock, monitor,
                    listener, invoked >>
    /\ IdleFrame

IdleNext ==
    \/ DetectorStart
    \/ MonitorBegin
    \/ MonitorTest
    \/ MonitorSleepCheck
    \/ MonitorElapsedCheck
    \/ \E raises \in BOOLEAN : MonitorCallbackEnds(raises)
    \/ \E duration \in SleepDurations : MonitorSleep(duration)
    \/ \E duration \in SleepDurations : Elapse(duration)
    \/ InputEvent
    \/ ListenerActivity
    \/ ListenerCallbackEnds
    \/ DetectorStop
    \/ DetectorJoin

IdleSpec == Init /\ [][IdleNext]_vars

(***************************************************************************)
(* The ledger over several days: the logs that the daily breakdown is      *)
(* evaluated on.  The operations are those of the ledger; the clock moves  *)
(* by hours and days between them and stands still during one.             *)
(***************************************************************************)
\* number of days after the first on which the clock stops at 02:00
MaxDays == 2

\* the instants the clock moves to: 23:00 of the first day and 02:00 of the
\* days after it
DayInstants ==
    { 23 * SecondsPerHour }
        \cup { d * SecondsPerDay + 2 * SecondsPerHour : d \in 1..MaxDays }

\* what no operation of the ledger touches
DayFrame ==
    /\ UNCHANGED << clock, call >>
    /\ UNCHANGED store_vars
    /\ UNCHANGED << answer, caller, idle_vars >>

DayTick(instant) ==
    /\ clock < instant
    /\ clock' = instant
    /\ UNCHANGED << current_project, current_start, current_elapsed,
                    paused_project, pause_start, entries, adjustments, call >>
    /\ UNCHANGED store_vars
    /\ UNCHANGED << answer, caller, idle_vars >>

DayStart(project_id) ==
    /\ CanGrow
    /\ Install(start_project(Tracker, project_id, clock, clock))
    /\ UNCHANGED adjustments
    /\ DayFrame

DayStop(auto_pause) ==
    /\ CanGrow
    /\ Install(stop_project(Tracker, auto_pause, clock))
    /\ UNCHANGED adjustments
    /\ DayFrame

DayPause ==
    /\ CanGrow
    /\ Install(pause_project(Tracker, clock, clock))
    /\ UNCHANGED adjustments
    /\ DayFrame

DayResume ==
    /\ CanGrow
    /\ Install(resume_paused_project(Tracker, clock, clock, clock))
    /\ UNCHANGED adjustments
    /\ DayFrame

DayAdjust(project_id, minutes, date) ==
    /\ CanGrow
    /\ adjustments < MaxAdj
    /\ Install(add_adjustment(Tracker, project_id, minutes, "", date, clock))
    /\ adjustments' = adjustments + 1
    /\ DayFrame

DailyNext ==
    \/ \E instant \in DayInstants : DayTick(instant)
    \/ \E p \in Projects : DayStart(p)
    \/ \E a \in BOOLEAN : DayStop(a)
    \/ DayPause
    \/ DayResume
    \/ \E p \in Projects, m \in AdjMinutes, date \in {None, Some(0)} :
          DayAdjust(p, m, date)

DailySpec == Init /\ [][DailyNext]_vars

(***************************************************************************)
(* The detector with the lock taken and released in steps of their own.    *)
(* Every "with self.lock:" of idle_detector.py is an Enter step, which     *)
(* waits for the lock and takes it, and a Locked step, which runs the      *)
(* block and releases the lock unless the block calls a callback, which    *)
(* runs with the lock held.  Besides the monitor and the listener thread,  *)
(* the main thread calls get_idle_time and reset.  The callbacks are the   *)
(* ones main.py wires, BatePonto._on_idle and BatePonto._on_active.        *)
(***************************************************************************)
LockUsers == {"monitor", "listener", "main"}

\* Lock.acquire: the lock can be taken when no thread holds it
can_acquire(l) == l = None

\* a callback that calls back into the detector (get_idle_time or reset) and
\* so asks for the lock from inside the locked block
callback_takes_lock_on_active(callback) == callback = "active"

\* whether a callback asks for the detector's lock: _on_idle calls
\* time_tracker.is_tracking and pause_project, _on_active calls
\* resume_paused_project, neither touches the detector
callback_takes_lock(callback) == FALSE

\* a callback returns once every lock it asks for is free; the lock is not
\* reentrant
callback_can_return(callback) ==
    callback_takes_lock(callback) => can_acquire(lock)

\* what no step of a locked block touches
LockFrame ==
    /\ UNCHANGED << current_project, current_start, current_elapsed,
                    paused_project, pause_start, adjustments, call >>
    /\ UNCHANGED entries
    /\ UNCHANGED store_vars
    /\ UNCHANGED << answer, invoked >>

\* lines 55-61 and 75: the test of the loop, now, time_since_last_check and
\* the test against the threshold
MonitorLoopTest ==
    /\ monitor.pc = "test"
    /\ IF ~running
       THEN monitor' = [monitor EXCEPT !.pc = "done"]
       ELSE LET now == clock
                time_since_last_check == now - monitor.last_check
                slept == time_since_last_check > sleep_threshold
            IN  monitor' = [monitor EXCEPT
                    !.pc = IF slept THEN "sleep_check" ELSE "elapsed_check",
                    !.now = now,
                    !.time_since_last_check = time_since_last_check,
                    !.last_check = IF slept THEN @ ELSE now]
    /\ UNCHANGED << clock, last_activity, is_idle, running, lock, listener, app >>
    /\ UNCHANGED caller
    /\ LockFrame

\* time.sleep(1): the thread wakes after the poll interval or, when the system
\* was suspended, after the idle timeout
MonitorWakes(duration) ==
    /\ monitor.pc = "sleep"
    /\ monitor.polls < MaxPolls \/ ~running
    /\ running \/ duration = poll_interval
    /\ clock' = clock + duration
    /\ monitor' = [monitor EXCEPT !.pc = "test", !.polls = @ + 1]
    /\ UNCHANGED << last_activity, is_idle, running, lock, listener, app >>
    /\ UNCHANGED caller
    /\ LockFrame

\* line 62: with self.lock
MonitorSleepEnter ==
    /\ monitor.pc = "sleep_check"
    /\ can_acquire(lock)
    /\ lock' = Some("monitor")
    /\ monitor' = [monitor EXCEPT !.pc = "sleep_locked"]
    /\ UNCHANGED << clock, last_activity, is_idle, running, listener, app >>
    /\ UNCHANGED caller
    /\ LockFrame

\* lines 63-73
MonitorSleepLocked ==
    /\ monitor.pc = "sleep_locked"
    /\ LET r == check_sleep(Detector, monitor.last_check,
                            monitor.time_since_last_check)
       IN  /\ InstallDetector(r)
           /\ IF r.call
              THEN /\ UNCHANGED lock
                   /\ monitor' = [monitor EXCEPT !.pc = "sleep_callback"]
              ELSE /\ lock' = None
                   /\ monitor' = [monitor EXCEPT !.pc = "elapsed_check",
                                                 !.last_check = monitor.now]
    /\ UNCHANGED << clock, running, listener, app >>
    /\ UNCHANGED caller
    /\ LockFrame

\* line 77: with self.lock
MonitorElapsedEnter ==
    /\ monitor.pc = "elapsed_check"
    /\ can_acquire(lock)
    /\ lock' = Some("monitor")
    /\ monitor' = [monitor EXCEPT !.pc = "elapsed_locked"]
    /\ UNCHANGED << clock, last_activity, is_idle, running, listener, app >>
    /\ UNCHANGED caller
    /\ LockFrame

\* lines 78-83
MonitorElapsedLocked ==
    /\ monitor.pc = "elapsed_locked"
    /\ LET r == check_elapsed(Detector, clock)
       IN  /\ InstallDetector(r)
           /\ IF r.call
              THEN /\ UNCHANGED lock
                   /\ monitor' = [monitor EXCEPT !.pc = "elapsed_callback"]
              ELSE /\ lock' = None
                   /\ monitor' = [monitor EXCEPT !.pc = "sleep"]
    /\ UNCHANGED << clock, running, listener, app >>
    /\ UNCHANGED caller
    /\ LockFrame

\* _on_idle returns or raises; either way the with block releases the lock
MonitorCallbackReturns(raises) ==
    /\ monitor.pc \in {"sleep_callback", "elapsed_callback"}
    /\ callback_can_return("idle")
    /\ lock' = None
    /\ monitor' =
          IF raises
          THEN [monitor EXCEPT !.pc = "dead"]
          ELSE IF monitor.pc = "sleep_callback"
          THEN [monitor EXCEPT !.pc = "elapsed_check", !.last_check = monitor.now]
          ELSE [monitor EXCEPT !.pc = "sleep"]
    /\ UNCHANGED << clock, last_activity, is_idle, running, listener, app >>
    /\ UNCHANGED caller
    /\ LockFrame

\* line 34: with self.lock
ListenerEnter ==
    /\ listener.pc = "on_activity"
    /\ can_acquire(lock)
    /\ lock' = Some("listener")
    /\ listener' = [listener EXCEPT !.pc = "locked"]
    /\ UNCHANGED << clock, last_activity, is_idle, running, monitor, app >>
    /\ UNCHANGED caller
    /\ LockFrame

\* lines 35-41
ListenerLocked ==
    /\ listener.pc = "locked"
    /\ LET r == on_activity(Detector, clock)
       IN  /\ InstallDetector(r)
           /\ IF r.call
              THEN /\ UNCHANGED lock
                   /\ listener' = [listener EXCEPT !.pc = "active_callback"]
              ELSE /\ lock' = None
                   /\ listener' = [listener EXCEPT !.pc = "listening"]
    /\ UNCHANGED << clock, running, monitor, app >>
    /\ UNCHANGED caller
    /\ LockFrame

\* _on_active returns
ListenerCallbackReturns ==
    /\ listener.pc = "active_callback"
    /\ callback_can_return("active")
    /\ lock' = None
    /\ listener' = [listener EXCEPT !.pc = "listening"]
    /\ UNCHANGED << clock, last_activity, is_idle, running, monitor, app >>
    /\ UNCHANGED caller
    /\ LockFrame

\* the main thread calls get_idle_time or reset
DetectorCall(op) ==
    /\ app = "started"
    /\ caller["main"].pc = "idle"
    /\ caller' = [caller EXCEPT !["main"] = [Resting EXCEPT !.pc = op, !.op = op]]
    /\ UNCHANGED << clock, last_activity, is_idle, running, lock, monitor,
                    listener, app >>
    /\ LockFrame

\* a get_idle_time that reads the fields without taking the lock
GetIdleTimeEnterUnlocked ==
    /\ caller["main"].pc = "get_idle_time"
    /\ caller' = [caller EXCEPT !["main"].pc = "get_idle_time_locked"]
    /\ UNCHANGED << clock, last_activity, is_idle, running, lock, monitor,
                    listener, app >>
    /\ LockFrame

\* line 141: with self.lock
GetIdleTimeEnter ==
    /\ caller["main"].pc = "get_idle_time"
    /\ can_acquire(lock)
    /\ lock' = Some("main")
    /\ caller' = [caller EXCEPT !["main"].pc = "get_idle_time_locked"]
    /\ UNCHANGED << clock, last_activity, is_idle, running, monitor, listener,
                    app >>
    /\ LockFrame

\* lines 142-144
GetIdleTimeLocked ==
    /\ caller["main"].pc = "get_idle_time_locked"
    /\ lock' = None
    /\ caller' = [caller EXCEPT !["main"] =
                     [Resting EXCEPT !.op = "get_idle_time",
                                     !.ret = Some(IF is_idle
                                                  THEN clock - last_activity
                                                  ELSE 0)]]
    /\ UNCHANGED << clock, last_activity, is_idle, running, monitor, listener,
                    app >>
    /\ LockFrame

\* line 148: with self.lock
ResetEnter ==
    /\ caller["main"].pc = "reset"
    /\ can_acquire(lock)
    /\ lock' = Some("main")
    /\ caller' = [caller EXCEPT !["main"].pc = "reset_locked"]
    /\ UNCHANGED << clock, last_activity, is_idle, running, monitor, listener,
                    app >>
    /\ LockFrame

\* lines 149-150
ResetLocked ==
    /\ caller["main"].pc = "reset_locked"
    /\ last_activity' = clock
    /\ is_idle' = FALSE
    /\ lock' = None
    /\ caller' = [caller EXCEPT !["main"] = [Resting EXCEPT !.op = "reset"]]
    /\ UNCHANGED << clock, running, monitor, listener, app >>
    /\ LockFrame

\* the steps of the monitor thread that wait for nothing
MonitorRuns ==
    \/ MonitorBegin
    \/ MonitorLoopTest
    \/ MonitorSleepLocked
    \/ MonitorElapsedLocked
    \/ \E raises \in BOOLEAN : MonitorCallbackReturns(raises)
    \/ \E duration \in {poll_interval, idle_timeout} : MonitorWakes(duration)

\* the steps of the listener thread that wait for nothing
ListenerRuns ==
    \/ ListenerLocked
    \/ ListenerCallbackReturns

\* the steps of the main thread inside a call that wait for nothing
MainRuns ==
    \/ GetIdleTimeLocked
    \/ ResetLocked

\* the main thread calls stop when it is in no other call of the detector
MainStops ==
    /\ caller["main"].pc = "idle"
    /\ DetectorStop

LockNext ==
    \/ DetectorStart
    \/ MonitorRuns
    \/ MonitorSleepEnter
    \/ MonitorElapsedEnter
    \/ InputEvent
    \/ ListenerEnter
    \/ ListenerRuns
    \/ \E op \in {"get_idle_time", "reset"} : DetectorCall(op)
    \/ GetIdleTimeEnter
    \/ ResetEnter
    \/ MainRuns
    \/ MainStops
    \/ DetectorJoin

LockSpec == Init /\ [][LockNext]_vars

\* The scheduling the threads rely on, one condition per thread.  A thread
\* that can take a step that waits for nothing takes it; a thread that waits
\* for the lock gets it if the lock is free again and again; join returns.
\* Nothing obliges the user to touch the keyboard, the application to call
\* the detector, or the system to stop.
LockLiveSpec ==
    /\ LockSpec
    /\ SF_vars(MonitorRuns \/ MonitorSleepEnter \/ MonitorElapsedEnter)
    /\ SF_vars(ListenerRuns \/ ListenerEnter)
    /\ SF_vars(MainRuns \/ GetIdleTimeEnter \/ ResetEnter \/ DetectorJoin)

(***************************************************************************)
(* The detector wired to the ledger as in BatePonto.__init__: the idle     *)
(* callback pauses the running project, the active callback resumes the    *)
(* paused one.  The steps are whole: a tick of the watcher with the        *)
(* callbacks it calls, an activity notification with its callback, a key   *)
(* of the user.  The threads do not overlap here.                          *)
(***************************************************************************)
\* BatePonto._on_idle, with the clock the pause reads
on_idle(s, now) ==
    IF s.current_project /= None
    THEN pause_project(s, now, now)
    ELSE [s |-> s, ret |-> FALSE]

\* BatePonto._on_active, with the clock the resume reads
on_active(s, now) == resume_paused_project(s, now, now, now)

WakeFrame ==
    /\ UNCHANGED adjustments
    /\ UNCHANGED store_vars
    /\ UNCHANGED << answer, caller >>

\* the user starts a project, or stops the running one: toggle_project
WakeToggle(project_id) ==
    /\ app = "started"
    /\ CanGrow
    /\ LET r == IF current_project = Some(project_id)
                THEN stop_project(Tracker, FALSE, clock)
                ELSE start_project(Tracker, project_id, clock, clock)
       IN  /\ Install(r)
           /\ Called(IF current_project = Some(project_id) THEN "stop" ELSE "start",
                     Some(project_id), FALSE, 0, r, <<clock, clock>>)
    /\ UNCHANGED clock
    /\ UNCHANGED idle_vars
    /\ WakeFrame

\* time.sleep(1) and the tick after it: the watcher wakes duration seconds
\* later, tests for a sleep of the system, then for the idle timeout; each
\* test that fires calls the idle callback
WakeTick(duration) ==
    /\ monitor.pc = "test"
    /\ running
    /\ monitor.polls < MaxPolls
    /\ LET now == clock + duration
           time_since_last_check == now - monitor.last_check
           r1 == check_sleep(Detector, monitor.last_check, time_since_last_check)
           t1 == IF r1.call THEN on_idle(Tracker, now)
                            ELSE [s |-> Tracker, ret |-> FALSE]
           r2 == check_elapsed(r1.d, now)
           t2 == IF r2.call THEN on_idle(t1.s, now)
                            ELSE [s |-> t1.s, ret |-> t1.ret]
           block == IF r1.call THEN "sleep_check" ELSE "elapsed_check"
       IN  /\ clock' = now
           /\ InstallDetector(r2)
           /\ Install(t2)
           /\ IF t2.ret
              THEN Called("pause", None, TRUE, 0, t2, <<now, now>>)
              ELSE UNCHANGED call
           /\ invoked' =
                 IF r1.call \/ r2.call
                 THEN Append(invoked,
                          [ callback |-> "idle", by |-> "monitor",
                            block    |-> block,
                            at       |-> now,
                            poll     |-> monitor.polls + 1,
                            was_idle |-> is_idle,
                            elapsed  |-> now - last_activity,
                            since    |-> time_since_last_check,
                            stopped  |-> FALSE ])
                 ELSE invoked
           /\ monitor' = [monitor EXCEPT
                 !.now = now,
                 !.time_since_last_check = time_since_last_check,
                 !.last_check = now,
                 !.polls = @ + 1]
    /\ UNCHANGED << running, lock, listener, app >>
    /\ WakeFrame

\* a keyboard or mouse event: _on_activity and, after an idle episode, the
\* active callback
WakeActivity ==
    /\ listener.pc = "listening"
    /\ app = "started"
    /\ listener.events < MaxEvents
    /\ LET r == on_activity(Detector, clock)
           t == IF r.call THEN on_active(Tracker, clock)
                          ELSE [s |-> Tracker, ret |-> FALSE]
       IN  /\ InstallDetector(r)
           /\ Install(t)
           /\ IF r.call
              THEN /\ Called("resume", None, FALSE, 0, t, <<clock, clock, clock>>)
                   /\ invoked' = Append(invoked, Invocation("active", "listener",
                                                            "on_activity"))
              ELSE UNCHANGED << call, invoked >>
    /\ listener' = [listener EXCEPT !.events = @ + 1, !.now = clock,
                                    !.was_idle = is_idle]
    /\ UNCHANGED << clock, running, lock, monitor, app >>
    /\ WakeFrame

WakeNext ==
    \/ DetectorStart
    \/ MonitorBegin
    \/ \E p \in Projects : WakeToggle(p)
    \/ \E duration \in SleepDurations : WakeTick(duration)
    \/ WakeActivity

WakeSpec == Init /\ [][WakeNext]_vars

(***************************************************************************)
(* The TimeTracker used by two threads.  The main thread runs the key      *)
(* handler MainScreen.toggle_project; the detector's threads run the       *)
(* callbacks BatePonto._on_idle and BatePonto._on_active, one at a time    *)
(* because the detector calls them inside its lock.  TimeTracker takes no  *)
(* lock, so a thread can be switched out between any two statements: each  *)
(* action below is one statement group of a method, run by thread t.       *)
(* Storage.add_entry is taken as one step here.                            *)
(***************************************************************************)
\* what json.dump stores for an Optional[str]: None becomes null
stored_id(o) == IF o = None THEN "null" ELSE Get(o)

\* thread t moves to the frame f
Goto(t, f) == caller' = [caller EXCEPT ![t] = f]

\* where a thread goes when stop_project returns: start_project goes on to set
\* the session, toggle_project and pause_project return to their caller
AfterStop(f) ==
    IF f.op \in {"start", "resume"}
    THEN [f EXCEPT !.pc = "start_set"]
    ELSE Resting

RaceFrame ==
    /\ UNCHANGED << adjustments, call >>
    /\ UNCHANGED store_vars
    /\ UNCHANGED << answer, idle_vars >>

RaceTick ==
    /\ clock < MaxTime
    /\ clock' = clock + Quantum
    /\ UNCHANGED << current_project, current_start, current_elapsed,
                    paused_project, pause_start, entries, caller >>
    /\ RaceFrame

\* MainScreen.toggle_project on the main thread
MainToggle(project_id) ==
    /\ caller["main"].pc = "idle"
    /\ CanCall
    /\ IF current_project = Some(project_id)
       THEN Goto("main", [Resting EXCEPT !.pc = "stop_check", !.op = "stop"])
       ELSE Goto("main", [Resting EXCEPT !.pc = "start_check", !.op = "start",
                                         !.project_id = Some(project_id)])
    /\ UNCHANGED << clock, current_project, current_start, current_elapsed,
                    paused_project, pause_start, entries >>
    /\ RaceFrame

\* BatePonto._on_idle on the watcher thread: if is_tracking(): pause_project()
CallbackIdle ==
    /\ caller["callback"].pc = "idle"
    /\ CanCall
    /\ current_project /= None
    /\ Goto("callback", [Resting EXCEPT !.pc = "pause_check", !.op = "pause"])
    /\ UNCHANGED << clock, current_project, current_start, current_elapsed,
                    paused_project, pause_start, entries >>
    /\ RaceFrame

\* BatePonto._on_active on a listener thread: resume_paused_project(), up to
\* the call of start_project
CallbackActive ==
    /\ caller["callback"].pc = "idle"
    /\ CanCall
    /\ Truthy(paused_project) /\ pause_start /= None
    /\ LET project_id    == Get(paused_project)
           pause_end     == clock
           pause_minutes == IntDivMinutes(pause_end - Get(pause_start))
       IN  /\ paused_project' = None
           /\ pause_start' = None
           /\ entries' = IF pause_minutes > 0
                         THEN add_entry(entries,
                                  pause_adjustment_entry(project_id, pause_end,
                                                         pause_minutes))
                         ELSE entries
           /\ Goto("callback", [Resting EXCEPT !.pc = "start_check",
                                               !.op = "resume",
                                               !.project_id = Some(project_id),
                                               !.pause_end = pause_end])
    /\ UNCHANGED << clock, current_project, current_start, current_elapsed >>
    /\ RaceFrame

\* pause_project: if self.current_project:
PauseCheck(t) ==
    /\ caller[t].pc = "pause_check"
    /\ IF Truthy(current_project)
       THEN Goto(t, [caller[t] EXCEPT !.pc = "pause_set"])
       ELSE Goto(t, Resting)
    /\ UNCHANGED << clock, current_project, current_start, current_elapsed,
                    paused_project, pause_start, entries >>
    /\ RaceFrame

\* pause_project: paused_project and pause_start are set, current_project
\* read once more; then stop_project(auto_pause=True) is called
PauseSet(t) ==
    /\ caller[t].pc = "pause_set"
    /\ paused_project' = current_project
    /\ pause_start' = Some(clock)
    /\ Goto(t, [caller[t] EXCEPT !.pc = "stop_check", !.auto_pause = TRUE])
    /\ UNCHANGED << clock, current_project, current_start, current_elapsed,
                    entries >>
    /\ RaceFrame

\* start_project: if self.current_project: self.stop_project()
StartCheck(t) ==
    /\ caller[t].pc = "start_check"
    /\ IF Truthy(current_project)
       THEN Goto(t, [caller[t] EXCEPT !.pc = "stop_check"])
       ELSE Goto(t, [caller[t] EXCEPT !.pc = "start_set"])
    /\ UNCHANGED << clock, current_project, current_start, current_elapsed,
                    paused_project, pause_start, entries >>
    /\ RaceFrame

\* stop_project: the early return, and stop_time = datetime.now()
StopCheck(t) ==
    /\ caller[t].pc = "stop_check"
    /\ IF ~Truthy(current_project) \/ current_start = None
       THEN Goto(t, AfterStop(caller[t]))
       ELSE Goto(t, [caller[t] EXCEPT !.pc = "stop_log", !.stop_time = clock])
    /\ UNCHANGED << clock, current_project, current_start, current_elapsed,
                    paused_project, pause_start, entries >>
    /\ RaceFrame

\* stop_project: the event is stored with the current_project read now
StopLog(t) ==
    /\ caller[t].pc = "stop_log"
    /\ entries' = add_entry(entries,
                      [ project_id |-> stored_id(current_project),
                        event      |-> IF caller[t].auto_pause
                                       THEN "auto_pause" ELSE "stop",
                        timestamp  |-> caller[t].stop_time,
                        auto_pause |-> caller[t].auto_pause ])
    /\ Goto(t, [caller[t] EXCEPT !.pc = "stop_elapsed"])
    /\ UNCHANGED << clock, current_project, current_start, current_elapsed,
                    paused_project, pause_start >>
    /\ RaceFrame

\* stop_project: elapsed = current_elapsed + (stop_time - current_start), a
\* TypeError when current_start is None by now
StopElapsed(t) ==
    /\ caller[t].pc = "stop_elapsed"
    /\ IF current_start = None
       THEN Goto(t, [caller[t] EXCEPT !.pc = "raised",
                                      !.raised = Some("TypeError")])
       ELSE Goto(t, [caller[t] EXCEPT !.pc = "stop_clear"])
    /\ UNCHANGED << clock, current_project, current_start, current_elapsed,
                    paused_project, pause_start, entries >>
    /\ RaceFrame

\* stop_project: the live session is cleared and the call returns
StopClear(t) ==
    /\ caller[t].pc = "stop_clear"
    /\ current_project' = None
    /\ current_start' = None
    /\ current_elapsed' = 0
    /\ Goto(t, AfterStop(caller[t]))
    /\ UNCHANGED << clock, paused_project, pause_start, entries >>
    /\ RaceFrame

\* start_project: the live session is set
StartSet(t) ==
    /\ caller[t].pc = "start_set"
    /\ current_project' = caller[t].project_id
    /\ current_start' = Some(clock)
    /\ current_elapsed' = 0
    /\ Goto(t, [caller[t] EXCEPT !.pc = "start_log"])
    /\ UNCHANGED << clock, paused_project, pause_start, entries >>
    /\ RaceFrame

\* start_project: the Start is stored with the current_start read now;
\* add_entry turns a datetime into text and stores None as it is
StartLog(t) ==
    /\ caller[t].pc = "start_log"
    /\ LET entry == [ project_id |-> Get(caller[t].project_id),
                      event      |-> "start",
                      timestamp  |-> current_start,
                      auto_pause |-> FALSE ]
       IN  entries' = IF current_start = None
                      THEN Append(entries, entry)
                      ELSE add_entry(entries,
                               [entry EXCEPT !.timestamp = Get(current_start)])
    /\ Goto(t, Resting)
    /\ UNCHANGED << clock, current_project, current_start, current_elapsed,
                    paused_project, pause_start >>
    /\ RaceFrame

RaceNext ==
    \/ RaceTick
    \/ \E p \in Projects : MainToggle(p)
    \/ CallbackIdle
    \/ CallbackActive
    \/ \E t \in Threads :
          \/ PauseCheck(t)
          \/ PauseSet(t)
          \/ StartCheck(t)
          \/ StopCheck(t)
          \/ StopLog(t)
          \/ StopElapsed(t)
          \/ StopClear(t)
          \/ StartSet(t)
          \/ StartLog(t)

RaceSpec == Init /\ [][RaceNext]_vars

(***************************************************************************)
(* Vocabulary of the properties.                                           *)
(***************************************************************************)
\* the instant an event of the log carries
ts(e) == fromisoformat(e.timestamp)

IsStart(e) == e.event = "start"
IsTerminating(e) == e.event \in {"stop", "auto_pause"}

\* the events the last call appended, provided it kept what was there
Appended == SubSeq(entries, Len(call.pre.entries) + 1, Len(entries))
PrefixKept ==
    /\ Len(entries) >= Len(call.pre.entries)
    /\ SubSeq(entries, 1, Len(call.pre.entries)) = call.pre.entries

\* the live session and the paused state are as they were before the last call
LiveSessionUnchanged ==
    /\ current_project = call.pre.current_project
    /\ current_start   = call.pre.current_start
    /\ current_elapsed = call.pre.current_elapsed
PausedStateUnchanged ==
    /\ paused_project = call.pre.paused_project
    /\ pause_start    = call.pre.pause_start
NoLiveSession ==
    /\ current_project = None
    /\ current_start   = None
    /\ current_elapsed = 0

\* Start of project p at position i of the log that no later event terminates
OpenStart(i, p) ==
    /\ IsStart(entries[i])
    /\ entries[i].project_id = p
    /\ \A j \in (i + 1)..Len(entries) :
          ~(IsTerminating(entries[j]) /\ entries[j].project_id = p)

\* the projects the log shows as running
RunningInLog == { p \in Projects : \E i \in 1..Len(entries) : OpenStart(i, p) }

(***************************************************************************)
(* C1: at most one project is Running.  The projects with an unterminated  *)
(* Start in the log are at most one, namely the project of the live        *)
(* session, and after start(p) called while another project q was live, q  *)
(* is no longer running and p is.                                          *)
(***************************************************************************)
C1_AtMostOneRunning ==
    /\ Cardinality(RunningInLog) <= 1
    /\ RunningInLog = (IF current_project = None THEN {} ELSE {Get(current_project)})
    /\ (call.op = "start" /\ call.pre.current_project \notin {None, call.project_id})
          => /\ current_project = call.project_id
             /\ Get(call.pre.current_project) \notin RunningInLog

C1_Witness ==
    /\ call.op = "start"
    /\ call.pre.current_project \notin {None, call.project_id}
    /\ RunningInLog = {Get(call.project_id)}

(***************************************************************************)
(* C2: whenever a live session exists, the log holds a Start of the live   *)
(* project whose timestamp is the session's started_at and that no later   *)
(* Stop/AutoPause of that project follows.                                 *)
(***************************************************************************)
C2_LiveSessionHasStart ==
    current_project /= None =>
        /\ current_start /= None
        /\ \E i \in 1..Len(entries) :
              /\ OpenStart(i, Get(current_project))
              /\ ts(entries[i]) = Get(current_start)

\* a live session of a project that has an earlier, terminated session, begun
\* at an instant that is not a whole minute
C2_Witness ==
    /\ current_project /= None
    /\ Get(current_start) % SecondsPerMinute /= 0
    /\ \E j \in 1..Len(entries) :
          IsTerminating(entries[j]) /\ entries[j].project_id = Get(current_project)

(***************************************************************************)
(* C3: start(p) while a different project q is live appends exactly a Stop *)
(* for q and then a Start for p, the Stop not later than the Start; start  *)
(* with no live project appends only the Start.  In both cases the live    *)
(* session is {p, timestamp of the Start, 0} and the call returns success. *)
(***************************************************************************)
C3_StartAppends ==
    (call.op = "start" /\ call.pre.current_project /= call.project_id) =>
        LET p == Get(call.project_id)
            n == Len(Appended)
        IN  /\ PrefixKept
            /\ call.ret = TRUE
            /\ n = (IF call.pre.current_project = None THEN 1 ELSE 2)
            /\ IsStart(Appended[n]) /\ Appended[n].project_id = p
            /\ current_project = Some(p)
            /\ current_start = Some(ts(Appended[n]))
            /\ ts(Appended[n]) = call.at[2]
            /\ current_elapsed = 0
            /\ n = 2 => /\ Appended[1].event = "stop"
                        /\ Appended[1].project_id = Get(call.pre.current_project)
                        /\ ts(Appended[1]) <= ts(Appended[2])

\* a switch whose two events carry different instants
C3_Witness ==
    /\ call.op = "start"
    /\ call.pre.current_project \notin {None, call.project_id}
    /\ Len(Appended) = 2
    /\ ts(Appended[1]) < ts(Appended[2])

(***************************************************************************)
(* C4: stop() with a live session appends exactly one terminating event    *)
(* for the live project at now (auto_pause with auto_pause=true when       *)
(* called with auto_pause, else stop with auto_pause=false), clears the    *)
(* live session and returns accumulated + (now - started_at).              *)
(***************************************************************************)
C4_StopTerminates ==
    (call.op = "stop" /\ call.pre.current_project /= None) =>
        /\ PrefixKept
        /\ Len(Appended) = 1
        /\ Appended[1].project_id = Get(call.pre.current_project)
        /\ Appended[1].event = (IF call.auto_pause THEN "auto_pause" ELSE "stop")
        /\ Appended[1].auto_pause = call.auto_pause
        /\ ts(Appended[1]) = call.at[1]
        /\ NoLiveSession
        /\ call.ret = Some(call.pre.current_elapsed
                            + (call.at[1] - Get(call.pre.current_start)))

\* an auto-pause stop of a session that ran for some time
C4_Witness ==
    /\ call.op = "stop"
    /\ call.pre.current_project /= None
    /\ call.auto_pause
    /\ call.ret /= None
    /\ Get(call.ret) > 0

(***************************************************************************)
(* C5: stop() with no live session returns "nothing to stop", appends no   *)
(* event and leaves the live session and the paused state unchanged.       *)
(***************************************************************************)
C5_StopNothing ==
    (call.op = "stop" /\ call.pre.current_project = None) =>
        /\ call.ret = None
        /\ entries = call.pre.entries
        /\ LiveSessionUnchanged
        /\ PausedStateUnchanged

\* stop() called while a project is auto-paused
C5_Witness ==
    /\ call.op = "stop"
    /\ call.pre.current_project = None
    /\ call.pre.paused_project /= None

(***************************************************************************)
(* C6: pause() when no project is tracked returns failure, appends no      *)
(* event and leaves the live session and the paused state unchanged, every *)
(* time it is called.                                                      *)
(***************************************************************************)
C6_PauseNothing ==
    (call.op = "pause" /\ call.pre.current_project = None) =>
        /\ call.ret = FALSE
        /\ entries = call.pre.entries
        /\ LiveSessionUnchanged
        /\ PausedStateUnchanged

\* pause() called while a project is already auto-paused, later than it was
C6_Witness ==
    /\ call.op = "pause"
    /\ call.pre.current_project = None
    /\ call.pre.paused_project /= None
    /\ call.at[1] > Get(call.pre.pause_start)

(***************************************************************************)
(* C7: pause() with a live session for p sets the paused state to          *)
(* {p, now}, appends exactly one AutoPause event for p, clears the live    *)
(* session and returns success; and whenever a paused state for p is       *)
(* present the log holds an AutoPause event for p.                         *)
(***************************************************************************)
C7_PauseSnapshots ==
    /\ (call.op = "pause" /\ call.pre.current_project /= None) =>
          /\ PrefixKept
          /\ paused_project = call.pre.current_project
          /\ pause_start = Some(call.at[1])
          /\ Len(Appended) = 1
          /\ Appended[1].event = "auto_pause"
          /\ Appended[1].auto_pause = TRUE
          /\ Appended[1].project_id = Get(call.pre.current_project)
          /\ Get(pause_start) <= ts(Appended[1])
          /\ NoLiveSession
          /\ call.ret = TRUE
    /\ paused_project /= None =>
          \E i \in 1..Len(entries) :
              /\ entries[i].event = "auto_pause"
              /\ entries[i].project_id = Get(paused_project)

C7_Witness ==
    /\ call.op = "pause"
    /\ call.pre.current_project /= None
    /\ paused_project = call.pre.current_project
    /\ Len(Appended) = 1

(***************************************************************************)
(* C8: the paused state is reset by start, stop and resume: after any of   *)
(* these calls no paused state remains, so the project of the live session *)
(* is never the auto-paused project as well.                               *)
(***************************************************************************)
C8_PausedStateReset ==
    /\ call.op \in {"start", "stop", "resume"} => paused_project = None
    /\ current_project /= None => paused_project /= current_project

(***************************************************************************)
(* C9: resume() with no paused state returns failure, appends no event and *)
(* leaves the live session unchanged.                                      *)
(***************************************************************************)
C9_ResumeNothing ==
    (call.op = "resume" /\ call.pre.paused_project = None) =>
        /\ call.ret = FALSE
        /\ entries = call.pre.entries
        /\ LiveSessionUnchanged

\* resume() called with no paused state while a project is running
C9_Witness ==
    /\ call.op = "resume"
    /\ call.pre.paused_project = None
    /\ call.pre.current_project /= None

(***************************************************************************)
(* C10: resume() with paused state {p, pause_started_at} appends a         *)
(* PauseAdjustment for p with minutes = -floor((now - pause_started_at)    *)
(* in minutes) and timestamp now if the pause lasted at least one minute,  *)
(* and no PauseAdjustment if it was shorter.                               *)
(***************************************************************************)
PauseAdjustmentsAppended ==
    { i \in 1..Len(Appended) : Appended[i].event = "pause_adjustment" }

C10_PauseAdjustment ==
    (call.op = "resume" /\ call.pre.paused_project /= None) =>
        LET now == call.at[1]
            pause_duration == now - Get(call.pre.pause_start)
        IN  /\ PrefixKept
            /\ IF pause_duration >= SecondsPerMinute
               THEN /\ PauseAdjustmentsAppended = {1}
                    /\ Appended[1].project_id = Get(call.pre.paused_project)
                    /\ Appended[1].minutes = -(pause_duration \div SecondsPerMinute)
                    /\ ts(Appended[1]) = now
               ELSE PauseAdjustmentsAppended = {}

\* a resume after a pause of a minute and a half
C10_Witness ==
    /\ call.op = "resume"
    /\ call.pre.paused_project /= None
    /\ (call.at[1] - Get(call.pre.pause_start)) \div SecondsPerMinute = 1
    /\ (call.at[1] - Get(call.pre.pause_start)) % SecondsPerMinute /= 0
    /\ PauseAdjustmentsAppended = {1}

\* a resume after a pause of less than a minute
C10_WitnessShort ==
    /\ call.op = "resume"
    /\ call.pre.paused_project /= None
    /\ call.at[1] - Get(call.pre.pause_start) > 0
    /\ call.at[1] - Get(call.pre.pause_start) < SecondsPerMinute

(***************************************************************************)
(* C11: a successful resume() clears the paused state and then starts the  *)
(* paused project p: one fresh Start for p is appended after any           *)
(* PauseAdjustment, p is the live project, and a second resume() right     *)
(* after it fails and changes nothing.                                     *)
(***************************************************************************)
C11_ResumeRestarts ==
    (call.op = "resume" /\ call.pre.paused_project /= None) =>
        LET p == Get(call.pre.paused_project)
            n == Len(Appended)
        IN  /\ PrefixKept
            /\ call.ret = TRUE
            /\ paused_project = None
            /\ pause_start = None
            /\ n >= 1
            /\ { i \in 1..n : IsStart(Appended[i]) } = {n}
            /\ Appended[n].project_id = p
            /\ \A i \in PauseAdjustmentsAppended : i < n
            /\ current_project = Some(p)
            /\ current_start = Some(ts(Appended[n]))
            /\ resume_paused_project(Tracker, clock, clock, clock)
                  = [s |-> Tracker, ret |-> FALSE]

\* a resume that recorded a PauseAdjustment and then the Start
C11_Witness ==
    /\ call.op = "resume"
    /\ call.pre.paused_project /= None
    /\ PauseAdjustmentsAppended = {1}
    /\ Len(Appended) = 2
    /\ IsStart(Appended[2])
    /\ current_project = call.pre.paused_project

(***************************************************************************)
(* Vocabulary of the reconstruction properties.                            *)
(***************************************************************************)
\* the instants a range may begin or end at
QueryTimes == { k * Quantum : k \in 0..(MaxTime \div Quantum + 2) }

\* the total of project p over [a, b] as computed in the current state
Total(p, a, b) == calculate_project_time(Tracker, p, a, b, clock)

\* the events of project p in the log, in log order
EventsOf(p) == SelectSeq(entries, LAMBDA e : e.project_id = p)

\* [a, b] contains every event of the log
Covers(a, b) == \A i \in 1..Len(entries) : a <= ts(entries[i]) /\ ts(entries[i]) <= b

Abs(x) == IF x >= 0 THEN x ELSE -x

(***************************************************************************)
(* C12: for start(p), pause(), resume() after a wall-clock duration D of   *)
(* at least one minute, the total of p over a range covering the episode   *)
(* is naive_elapsed - floor(D in minutes) minutes, within a minute of      *)
(* rounding, where naive_elapsed is the time from the start() to the       *)
(* query: the paused interval is subtracted exactly once.                  *)
(***************************************************************************)
C12_PauseSubtractedOnce ==
    (/\ call.op = "resume"
     /\ call.pre.paused_project /= None
     /\ call.at[1] - Get(call.pre.pause_start) >= SecondsPerMinute
     /\ Len(entries) = 4
     /\ entries[1].event = "start"
     /\ entries[2].event = "auto_pause"
     /\ entries[3].event = "pause_adjustment"
     /\ entries[4].event = "start"
     /\ \A i \in 1..4 : entries[i].project_id = Get(call.pre.paused_project))
    => LET p             == Get(call.pre.paused_project)
           D             == call.at[1] - Get(call.pre.pause_start)
           naive_elapsed == clock - ts(entries[1])
       IN  Abs(Total(p, 0, clock)
                 - (naive_elapsed - (D \div SecondsPerMinute) * SecondsPerMinute))
              < SecondsPerMinute

(***************************************************************************)
(* C13: add_adjustment(p, minutes, description, at) appends exactly one    *)
(* Adjustment event for p carrying minutes, for negative, positive and     *)
(* zero minutes and whether or not p is live or paused, and leaves the     *)
(* live session and the paused state unchanged.                            *)
(***************************************************************************)
C13_AdjustmentAppends ==
    call.op = "add_adjustment" =>
        /\ PrefixKept
        /\ Len(Appended) = 1
        /\ Appended[1].event = "adjustment"
        /\ Appended[1].project_id = Get(call.project_id)
        /\ Appended[1].minutes = call.minutes
        /\ ts(Appended[1]) <= call.at[1]
        /\ call.ret = TRUE
        /\ LiveSessionUnchanged
        /\ PausedStateUnchanged

\* an adjustment of zero minutes for the project that is running
C13_Witness ==
    /\ call.op = "add_adjustment"
    /\ call.minutes = 0
    /\ call.pre.current_project = call.project_id
    /\ Len(Appended) = 1

\* a negative adjustment for the project that is auto-paused
C13_WitnessPaused ==
    /\ call.op = "add_adjustment"
    /\ call.minutes < 0
    /\ call.pre.paused_project = call.project_id
    /\ Len(Appended) = 1

(***************************************************************************)
(* C14: every ledger operation only appends to the event log: the log      *)
(* before a call is a prefix of the log after it, so no event that was     *)
(* appended is changed, reordered or removed.                              *)
(***************************************************************************)
C14_AppendOnly ==
    call.op /= "init" => PrefixKept

\* a call that appended three events to a log that held three
C14_Witness ==
    /\ call.op = "resume"
    /\ Len(call.pre.entries) = 3
    /\ Len(entries) = 6
    /\ PrefixKept

(***************************************************************************)
(* C16: for a log of a project that consists only of paired Start and      *)
(* Stop/AutoPause events lying inside [start, end], with no live session,  *)
(* calculate_project_time is the exact sum of (stop.ts - start.ts) over    *)
(* the pairs.                                                              *)
(***************************************************************************)
\* ev is Start, Stop, Start, Stop, ...
Paired(ev) ==
    /\ Len(ev) % 2 = 0
    /\ \A i \in 1..Len(ev) :
          IF i % 2 = 1 THEN IsStart(ev[i]) ELSE IsTerminating(ev[i])

\* the sum of (stop.ts - start.ts) over the first n events of a paired ev
RECURSIVE PairSum(_, _)
PairSum(ev, n) ==
    IF n < 2 THEN 0
    ELSE PairSum(ev, n - 2) + (ts(ev[n]) - ts(ev[n - 1]))

C16_PairedSessionsSum ==
    \A p \in Projects :
        LET ev == EventsOf(p)
        IN  (current_project = None /\ Paired(ev)) =>
                \A a, b \in QueryTimes :
                    (\A i \in 1..Len(ev) : a <= ts(ev[i]) /\ ts(ev[i]) <= b)
                    => Total(p, a, b) = PairSum(ev, Len(ev))

\* two completed sessions of one project, one ended by an auto-pause
C16_Witness ==
    /\ current_project = None
    /\ \E p \in Projects :
          /\ Paired(EventsOf(p))
          /\ Len(EventsOf(p)) = 4
          /\ EventsOf(p)[2].event = "auto_pause"
          /\ ts(EventsOf(p)[2]) > ts(EventsOf(p)[1])
          /\ ts(EventsOf(p)[4]) > ts(EventsOf(p)[3])
          /\ Total(p, 0, clock) = PairSum(EventsOf(p), 4)

(***************************************************************************)
(* C17: every Adjustment and PauseAdjustment event of project p with       *)
(* timestamp in [start, end] adds its signed minutes to the total, whether *)
(* or not a session is open at that point of the replay: the total is the  *)
(* total of the log without these events plus the sum of their minutes.    *)
(***************************************************************************)
IsAdjustment(e) == e.event \in {"adjustment", "pause_adjustment"}

\* the seconds the first n entries of the log adjust project p by within [a, b]
RECURSIVE AdjustmentSum(_, _, _, _)
AdjustmentSum(p, a, b, n) ==
    IF n = 0 THEN 0
    ELSE AdjustmentSum(p, a, b, n - 1)
           + (IF /\ IsAdjustment(entries[n])
                 /\ entries[n].project_id = p
                 /\ a <= ts(entries[n]) /\ ts(entries[n]) <= b
              THEN entries[n].minutes * SecondsPerMinute
              ELSE 0)

\* the tracker over the log without its adjustments
WithoutAdjustments ==
    [Tracker EXCEPT !.entries = SelectSeq(entries, LAMBDA e : ~IsAdjustment(e))]

C17_AdjustmentsAlwaysCount ==
    \A p \in Projects : \A a, b \in QueryTimes :
        a <= b =>
            Total(p, a, b)
              = calculate_project_time(WithoutAdjustments, p, a, b, clock)
                  + AdjustmentSum(p, a, b, Len(entries))

\* an adjustment recorded while the session of its project is open
C17_Witness ==
    /\ Len(entries) = 3
    /\ IsStart(entries[1])
    /\ entries[2].event = "adjustment"
    /\ entries[2].minutes /= 0
    /\ IsTerminating(entries[3])
    /\ \A i \in 1..3 : entries[i].project_id = entries[1].project_id
    /\ ts(entries[1]) <= ts(entries[2])
    /\ ts(entries[3]) > ts(entries[1])
    /\ Total(entries[1].project_id, 0, clock)
          = (ts(entries[3]) - ts(entries[1]))
              + entries[2].minutes * SecondsPerMinute

(***************************************************************************)
(* C18: after the replay the still-running contribution (now - last_start) *)
(* is added only when the unterminated Start found in the range is the     *)
(* Start of the live session: same project and last_start equal to the     *)
(* session's started_at.  An unterminated Start left in the range by a     *)
(* session that has ended is never extended to now.                        *)
(***************************************************************************)
Replayed(p, a, b) ==
    replay(get_entries_by_project_and_date(entries, p, a, b), 1, 0, None)

C18_OnlyLiveStartExtended ==
    \A p \in Projects : \A a, b \in QueryTimes :
        Total(p, a, b)
          = Replayed(p, a, b).total_time
              + (IF /\ Replayed(p, a, b).last_start /= None
                    /\ current_project = Some(p)
                    /\ Replayed(p, a, b).last_start = current_start
                 THEN clock - Get(current_start)
                 ELSE 0)

(***************************************************************************)
(* C19: an unterminated Start of a project that is not the live project    *)
(* contributes nothing to the total, for every log and range: the total    *)
(* is what the replay summed and does not depend on the time of the query. *)
(***************************************************************************)
C19_OrphanContributesNothing ==
    \A p \in Projects :
        current_project /= Some(p) =>
            \A a, b \in QueryTimes :
                a <= b =>
                    LET total == Total(p, a, b)
                    IN  /\ total = Replayed(p, a, b).total_time
                        /\ total = calculate_project_time(Tracker, p, a, b,
                                                          clock + Quantum)

\* a range that holds the Start of an ended session but not its Stop, queried
\* later, while the project is not live
C19_Witness ==
    \E p \in Projects : \E a, b \in QueryTimes :
        /\ current_project /= Some(p)
        /\ Replayed(p, a, b).last_start /= None
        /\ clock > Get(Replayed(p, a, b).last_start)
        /\ Total(p, a, b) = 0

(***************************************************************************)
(* C20: after start(A) and a later start(B), the current project is B and  *)
(* the total of A over any range covering both calls is the time from A's  *)
(* start to the switch instant; it does not grow while B runs.             *)
(***************************************************************************)
\* the last call was start(B) while A was live in its first session
Switched(A) ==
    /\ call.op = "start"
    /\ call.pre.current_project = Some(A)
    /\ call.project_id /= Some(A)
    /\ SelectSeq(call.pre.entries, LAMBDA e : e.project_id = A)
          = << [ project_id |-> A, event |-> "start",
                 timestamp |-> isoformat(Get(call.pre.current_start)),
                 auto_pause |-> FALSE ] >>

C20_SwitchFreezesTotal ==
    \A A \in Projects :
        Switched(A) =>
            /\ current_project = call.project_id
            /\ \A a, b \in QueryTimes :
                  Covers(a, b) =>
                      Total(A, a, b) = call.at[1] - Get(call.pre.current_start)

\* time has passed since the switch, and A had run for some time before it
C20_Witness ==
    \E A \in Projects :
        /\ Switched(A)
        /\ call.at[1] > Get(call.pre.current_start)
        /\ clock > call.at[2]
        /\ Covers(0, clock)
        /\ Total(A, 0, clock) = call.at[1] - Get(call.pre.current_start)

(***************************************************************************)
(* C15: appends to the event log are serialized.  When the callbacks of    *)
(* the idle detector and the main flow append events concurrently, every   *)
(* event whose append has returned is in the log once no append is in      *)
(* progress, and a reader never meets a partially written log: what it     *)
(* reads holds every event appended before.                                *)
(***************************************************************************)
NoAppendInProgress == \A t \in Threads : writer[t].pc = "idle"

C15_NoLostUpdate ==
    NoAppendInProgress =>
        /\ file_valid
        /\ Len(entries) = Len(added)
        /\ \A i \in 1..Len(added) : \E j \in 1..Len(entries) : entries[j] = added[i]

C15_NoPartialRead ==
    observed /= None =>
        /\ ~Get(observed).partial
        /\ \A i \in 1..Len(Get(observed).added) :
              \E j \in 1..Len(Get(observed).entries) :
                  Get(observed).entries[j] = Get(observed).added[i]

C15_AppendsSerialized == C15_NoLostUpdate /\ C15_NoPartialRead

(***************************************************************************)
(* C21: a range query returns, and calculate_project_time replays, the     *)
(* events ordered by timestamp (ties in append order), also after          *)
(* add_adjustment was called with a date earlier than events of the log.   *)
(***************************************************************************)
\* the events of es are in timestamp order
OrderedByTimestamp(es) ==
    \A i, j \in 1..Len(es) : i < j => ts(es[i]) <= ts(es[j])

C21_QueryOrdered ==
    \A a, b \in QueryTimes :
        a <= b =>
            /\ OrderedByTimestamp(get_entries_by_date_range(entries, a, b))
            /\ \A p \in Projects :
                  OrderedByTimestamp(
                      get_entries_by_project_and_date(entries, p, a, b))

(***************************************************************************)
(* C22: when an event met during a range query has a malformed timestamp,  *)
(* calculate_project_time fails with a parse error; it returns no total    *)
(* computed from the other events, and when it does return a total, every  *)
(* event of the log was parsed.                                            *)
(***************************************************************************)
Malformed(log) == { i \in 1..Len(log) : ~is_isoformat(log[i].timestamp) }

C22_MalformedFailsQuery ==
    answer /= None =>
        LET q == Get(answer)
        IN  /\ Malformed(q.log) /= {} =>
                  /\ q.outcome.raised = Some("ValueError")
                  /\ q.outcome.value = None
            /\ q.outcome.raised = None => Malformed(q.log) = {}

\* the query of a project failed on a log whose entries of that project all
\* parse and lie in the range: the malformed one belongs to the other project
C22_Witness ==
    /\ answer /= None
    /\ Get(answer).outcome.raised = Some("ValueError")
    /\ Cardinality(Malformed(Get(answer).log)) = 1
    /\ \E i \in 1..Len(Get(answer).log) :
          /\ Get(answer).log[i].project_id = Get(answer).project_id
          /\ i \notin Malformed(Get(answer).log)
    /\ \A i \in Malformed(Get(answer).log) :
          Get(answer).log[i].project_id /= Get(answer).project_id

(***************************************************************************)
(* C23: the watcher invokes the idle callback once per idle episode.  It   *)
(* fires only when is_idle is false and either now - last_activity has     *)
(* reached idle_timeout or the system slept; firing sets is_idle; a tick   *)
(* that ends with is_idle false found less than idle_timeout elapsed; and  *)
(* two idle callbacks never follow each other without the active callback  *)
(* of an activity notification in between.                                 *)
(***************************************************************************)
InIdleCallback == monitor.pc \in {"sleep_callback", "elapsed_callback"}

C23_IdleOncePerEpisode ==
    /\ \A i \in 1..Len(invoked) :
          invoked[i].callback = "idle" =>
              /\ ~invoked[i].was_idle
              /\ \/ invoked[i].elapsed >= idle_timeout
                 \/ invoked[i].since > sleep_threshold
    /\ \A i \in 1..(Len(invoked) - 1) :
          ~(invoked[i].callback = "idle" /\ invoked[i + 1].callback = "idle")
    /\ InIdleCallback => is_idle
    /\ monitor.pc = "sleep" => (is_idle \/ clock - last_activity < idle_timeout)

\* the callback fired in a tick that saw no sleep, and a later tick has ended
\* without firing it again
C23_Witness ==
    /\ Len(invoked) = 1
    /\ invoked[1].callback = "idle"
    /\ invoked[1].block = "elapsed_check"
    /\ invoked[1].since <= sleep_threshold
    /\ monitor.polls > invoked[1].poll
    /\ monitor.pc = "sleep"
    /\ is_idle

(***************************************************************************)
(* C24: an activity notification sets last_activity to now and clears      *)
(* is_idle, and invokes the active callback exactly when is_idle was true. *)
(* Under every interleaving of the monitor and the listener the callback   *)
(* invocations alternate idle, active, idle, active, starting with idle.   *)
(***************************************************************************)
C24_ActivityResumesOnce ==
    /\ \A i \in 1..Len(invoked) :
          /\ invoked[i].callback = (IF i % 2 = 1 THEN "idle" ELSE "active")
          /\ invoked[i].callback = "active" => invoked[i].was_idle
    /\ listener.pc = "active_callback" =>
          /\ last_activity = listener.now
          /\ ~is_idle
          /\ listener.was_idle

\* two idle episodes with the resume between them, and one notification that
\* found the detector not idle
C24_Witness ==
    /\ Len(invoked) = 3
    /\ listener.events = 2
    /\ listener.pc = "listening"

(***************************************************************************)
(* C25: a poll-to-poll gap of sleep_threshold + 1 seconds with no activity *)
(* in between triggers exactly one idle callback, and last_activity is     *)
(* backdated to the last poll time before the gap.                         *)
(***************************************************************************)
\* the monitor is past the sleep check of a tick that began not idle and with
\* no activity notified since the tick before it began
QuietTick ==
    /\ monitor.polls > 0
    /\ monitor.pc \notin {"sleep_check", "done"}
    /\ ~monitor.tick.was_idle
    /\ monitor.tick.quiet

SleepTriggeredIdle ==
    /\ monitor.tick.calls = 1
    /\ is_idle
    /\ last_activity = monitor.tick.from
    /\ invoked[Len(invoked)].callback = "idle"
    /\ invoked[Len(invoked)].block = "sleep_check"

C26_CallbacksOutsideLock ==
    /\ InIdleCallback => lock /= Some("monitor")
    /\ listener.pc = "active_callback" => lock /= Some("listener")

(***************************************************************************)
(* C27: after stop() has returned no callback is invoked and none is still *)
(* executing, also when a tick or an activity notification was in progress *)
(* when stop() was called.                                                 *)
(***************************************************************************)
C27_NoCallbackAfterStop ==
    /\ app = "stopped" =>
          /\ ~InIdleCallback
          /\ listener.pc /= "active_callback"
    /\ \A i \in 1..Len(invoked) : ~invoked[i].stopped

(***************************************************************************)
(* C28: a failed tick (the idle callback raises) does not end the watcher: *)
(* the thread is still polling afterwards.                                 *)
(***************************************************************************)
C28_WatcherSurvivesFailure ==
    (monitor.tick.failed /\ running) => monitor.pc /= "dead"

(***************************************************************************)
(* C29: the daily breakdown splits a session that spans calendar days: the *)
(* first day gets the time from the start to the midnight after it, each   *)
(* enclosed day 24 hours, the last day the time from its midnight to the   *)
(* stop, so that every day gets the part of the session that lies in it    *)
(* and the parts sum to stop - start; a session within one day is credited *)
(* whole to that day.  23:00 to 02:00 gives 1 h and 2 h.                   *)
(***************************************************************************)
\* the days an event of a behaviour may lie on
Days == 0..MaxDays

Max(x, y) == IF x >= y THEN x ELSE y
Min(x, y) == IF x <= y THEN x ELSE y

\* the seconds of [a, b] that lie on day d
Overlap(a, b, d) ==
    Max(0, Min(b, (d + 1) * SecondsPerDay) - Max(a, d * SecondsPerDay))

\* the Start, Stop and AutoPause events of project p, in log order
SessionEventsOf(p) ==
    SelectSeq(entries, LAMBDA e : e.project_id = p /\ ~IsAdjustment(e))

\* the seconds on day d of the sessions among the first n events of ev: a
\* session is a terminating event right after a Start
RECURSIVE SessionShare(_, _, _)
SessionShare(ev, d, n) ==
    IF n < 2 THEN 0
    ELSE SessionShare(ev, d, n - 1)
           + (IF IsTerminating(ev[n]) /\ IsStart(ev[n - 1])
              THEN Overlap(ts(ev[n - 1]), ts(ev[n]), d)
              ELSE 0)

\* the length of the sessions among the first n events of ev
RECURSIVE SessionLength(_, _)
SessionLength(ev, n) ==
    IF n < 2 THEN 0
    ELSE SessionLength(ev, n - 1)
           + (IF IsTerminating(ev[n]) /\ IsStart(ev[n - 1])
              THEN ts(ev[n]) - ts(ev[n - 1])
              ELSE 0)

\* what the breakdown dt credits project p with on day d
Credited(dt, d, p) ==
    IF d \in DOMAIN dt /\ p \in DOMAIN dt[d] THEN dt[d][p] ELSE 0

\* what dt credits p with on the days 0..d
RECURSIVE CreditedUpTo(_, _, _)
CreditedUpTo(dt, d, p) ==
    IF d < 0 THEN 0 ELSE CreditedUpTo(dt, d - 1, p) + Credited(dt, d, p)

C29_SessionSplitByDay ==
    \A p \in Projects :
        LET ev == SessionEventsOf(p)
            dt == daily_totals_of(ev)
        IN  /\ DOMAIN dt \subseteq Days
            /\ \A d \in Days : Credited(dt, d, p) = SessionShare(ev, d, Len(ev))
            /\ CreditedUpTo(dt, MaxDays, p) = SessionLength(ev, Len(ev))

\* a session from 23:00 to 02:00 of the next day
C29_Witness ==
    \E p \in Projects :
        LET ev == SessionEventsOf(p)
            dt == daily_totals_of(ev)
        IN  /\ Len(ev) = 2
            /\ IsStart(ev[1]) /\ IsTerminating(ev[2])
            /\ ev[1].timestamp = << 0, 23, 0, 0 >>
            /\ ev[2].timestamp = << 1, 2, 0, 0 >>
            /\ Credited(dt, 0, p) = 1 * SecondsPerHour
            /\ Credited(dt, 1, p) = 2 * SecondsPerHour

\* a session that spans three days: the day in the middle gets 24 hours
C29_WitnessEnclosedDay ==
    \E p \in Projects :
        LET ev == SessionEventsOf(p)
            dt == daily_totals_of(ev)
        IN  /\ Len(ev) = 2
            /\ IsStart(ev[1]) /\ IsTerminating(ev[2])
            /\ strftime_date(ts(ev[2])) = strftime_date(ts(ev[1])) + 2
            /\ Credited(dt, strftime_date(ts(ev[1])) + 1, p) = SecondsPerDay
            /\ Credited(dt, strftime_date(ts(ev[1])), p) > 0
            /\ Credited(dt, strftime_date(ts(ev[2])), p) > 0

(***************************************************************************)
(* C30: the daily breakdown adds the signed minutes of each adjustment and *)
(* pause adjustment to the day of the event's own timestamp, never to the  *)
(* day of an enclosing session, and every date that receives a session or  *)
(* adjustment contribution is a date of the output, also when an           *)
(* adjustment is its only contribution.                                    *)
(***************************************************************************)
\* the seconds the adjustments of p among the first n entries of the log put
\* on day d
RECURSIVE AdjustmentShare(_, _, _)
AdjustmentShare(p, d, n) ==
    IF n = 0 THEN 0
    ELSE AdjustmentShare(p, d, n - 1)
           + (IF /\ IsAdjustment(entries[n])
                 /\ entries[n].project_id = p
                 /\ strftime_date(ts(entries[n])) = d
              THEN entries[n].minutes * SecondsPerMinute
              ELSE 0)

C30_AdjustmentsOnOwnDay ==
    LET rows == daily_rows(entries)
    IN  /\ \A p \in Projects : \A d \in Days :
              LET credited == IF d \in DOMAIN rows /\ p \in DOMAIN rows[d]
                              THEN rows[d][p] ELSE 0
                  sessions == SessionShare(SessionEventsOf(p), d,
                                           Len(SessionEventsOf(p)))
                  adjusted == AdjustmentShare(p, d, Len(entries))
              IN  /\ credited = sessions + adjusted
                  /\ (sessions /= 0 \/ adjusted /= 0) => d \in DOMAIN rows
        /\ \A i \in 1..Len(entries) :
              IsAdjustment(entries[i]) =>
                  strftime_date(ts(entries[i])) \in DOMAIN rows

\* an adjustment made on the second day of a session: it counts on its own
\* day, and the day the session started on gets the session's part only
C30_Witness ==
    /\ Len(entries) = 3
    /\ IsStart(entries[1])
    /\ entries[2].event = "adjustment"
    /\ entries[2].minutes /= 0
    /\ IsTerminating(entries[3])
    /\ \A i \in 1..3 : entries[i].project_id = entries[1].project_id
    /\ strftime_date(ts(entries[2])) = strftime_date(ts(entries[1])) + 1
    /\ strftime_date(ts(entries[3])) = strftime_date(ts(entries[2]))
    /\ LET p    == entries[1].project_id
           rows == daily_rows(entries)
       IN  /\ rows[strftime_date(ts(entries[1]))][p]
                 = midnight(ts(entries[2])) - ts(entries[1])
           /\ rows[strftime_date(ts(entries[2]))][p]
                 = (ts(entries[3]) - midnight(ts(entries[3])))
                     + entries[2].minutes * SecondsPerMinute

\* an adjustment dated on a day before the session that is open when it is
\* made: the day has nothing but the adjustment
C30_WitnessOnlyAdjustment ==
    \E i \in 1..Len(entries) :
        LET p    == entries[i].project_id
            d    == strftime_date(ts(entries[i]))
            rows == daily_rows(entries)
        IN  /\ entries[i].event = "adjustment"
            /\ entries[i].minutes /= 0
            /\ i > 1
            /\ IsStart(entries[i - 1])
            /\ entries[i - 1].project_id = p
            /\ strftime_date(ts(entries[i - 1])) > d
            /\ i < Len(entries)
            /\ IsTerminating(entries[i + 1])
            /\ rows[d][p] = entries[i].minutes * SecondsPerMinute
            /\ \A j \in 1..Len(entries) :
                  j /= i => strftime_date(ts(entries[j])) /= d


(***************************************************************************)
(* The summary of a range.                                                 *)
(***************************************************************************)
\* where a project stands in the stored list
ProjectIndex(p) == CHOOSE i \in 1..Len(get_projects) : get_projects[i].id = p

Summary(a, b) == get_project_summary(Tracker, a, b, clock)

\* C31: the summary of a range holds exactly one entry per stored project,
\* each with that project's name and its total over the range, in descending
\* order of total, projects of equal total in the order they are stored in
C31_SummaryPerProjectDescending ==
    \A a \in {0} : \A b \in {Quantum, clock} :
        a <= b =>
            LET summary == Summary(a, b)
            IN  /\ Len(summary) = Len(get_projects)
                /\ \A i \in 1..Len(get_projects) :
                       \E j \in 1..Len(summary) :
                           /\ summary[j].project_id = get_projects[i].id
                           /\ summary[j].project_name = get_projects[i].name
                           /\ summary[j].total_time = Total(get_projects[i].id, a, b)
                /\ \A j \in 1..Len(summary) : \A k \in 1..Len(summary) :
                       j < k =>
                           /\ summary[j].total_time >= summary[k].total_time
                           /\ summary[j].total_time = summary[k].total_time
                                  => ProjectIndex(summary[j].project_id)
                                         < ProjectIndex(summary[k].project_id)

\* the second stored project leads with the largest total, and two projects of
\* equal total follow it in stored order
C31_Witness ==
    LET summary == Summary(0, clock)
    IN  /\ summary[1].project_id = "p2"
        /\ summary[1].total_time > summary[2].total_time
        /\ summary[2].total_time = summary[3].total_time
        /\ summary[2].project_id = "p1"
        /\ summary[3].project_id = "p3"

\* three different totals, the stored order turned into the descending one
C31_WitnessDistinct ==
    LET summary == Summary(0, clock)
    IN  /\ summary[1].project_id = "p2"
        /\ summary[2].project_id = "p1"
        /\ summary[1].total_time > summary[2].total_time
        /\ summary[2].total_time > summary[3].total_time

(***************************************************************************)
(* C32: the Start and Stop/AutoPause events of the log alternate.          *)
(***************************************************************************)
\* the session events of the log, of every project, in log order
SessionLog == SelectSeq(entries, LAMBDA e : IsStart(e) \/ IsTerminating(e))

\* C32: after any sequence of start, stop, pause, resume and add_adjustment
\* calls every Start but the last event is followed at once, among the session
\* events, by one Stop/AutoPause of its project; every Stop/AutoPause follows
\* the Start of its project at once; and the last session event is a Start
\* exactly when there is a live session, which is then of that Start's project
C32_StartsAndStopsAlternate ==
    LET sl == SessionLog
    IN  /\ \A i \in 1..(Len(sl) - 1) :
               IsStart(sl[i]) =>
                   /\ IsTerminating(sl[i + 1])
                   /\ sl[i + 1].project_id = sl[i].project_id
        /\ \A i \in 1..Len(sl) :
               IsTerminating(sl[i]) =>
                   /\ i > 1
                   /\ IsStart(sl[i - 1])
                   /\ sl[i - 1].project_id = sl[i].project_id
        /\ (Len(sl) > 0 /\ IsStart(sl[Len(sl)])) <=> current_project /= None
        /\ current_project /= None =>
               sl[Len(sl)].project_id = Get(current_project)

\* a resume that switched projects: the paused project's AutoPause, the Start
\* of another project, its Stop written by the resume, and the live Start of
\* the resumed project
C32_Witness ==
    /\ call.op = "resume"
    /\ Len(SessionLog) >= 4
    /\ IsStart(SessionLog[Len(SessionLog)])
    /\ SessionLog[Len(SessionLog) - 1].event = "stop"
    /\ SessionLog[Len(SessionLog) - 1].project_id
           /= SessionLog[Len(SessionLog)].project_id
    /\ \E i \in 1..Len(SessionLog) : SessionLog[i].event = "auto_pause"
    /\ current_project = Some(SessionLog[Len(SessionLog)].project_id)

(***************************************************************************)
(* C33: the ledger operations of the main thread and of the detector's     *)
(* callbacks behave as if they ran one at a time.                          *)
(***************************************************************************)
StoredIds == { get_projects[i].id : i \in 1..Len(get_projects) }

\* C33: under every interleaving of toggle_project on the main thread with
\* the pause and resume callbacks, a Stop/AutoPause follows the Start of its
\* project at once (so no Start has two terminating events), every stored
\* event carries the id of a stored project, the log shows at most one
\* project as running, and no call raises
C33_AsIfOneAtATime ==
    /\ \A i \in 1..Len(SessionLog) :
           IsTerminating(SessionLog[i]) =>
               /\ i > 1
               /\ IsStart(SessionLog[i - 1])
               /\ SessionLog[i - 1].project_id = SessionLog[i].project_id
    /\ \A i \in 1..Len(entries) : entries[i].project_id \in StoredIds
    /\ Cardinality(RunningInLog) <= 1
    /\ \A t \in Threads : caller[t].raised = None

\* the parts of C33 one by one
C33_OneTerminatorPerStart ==
    \A i \in 2..Len(SessionLog) :
        ~(IsTerminating(SessionLog[i]) /\ IsTerminating(SessionLog[i - 1]))
C33_RealProjectIds == \A i \in 1..Len(entries) : entries[i].project_id \in StoredIds
C33_OneRunning == Cardinality(RunningInLog) <= 1
C33_NoCallRaises == \A t \in Threads : caller[t].raised = None

(***************************************************************************)
(* C34: last_activity and is_idle are read and written under the lock.     *)
(***************************************************************************)
\* thread t is inside a "with self.lock" block: at the statements that read
\* and write last_activity and is_idle, or in the callback the block calls
Inside(t) ==
    CASE t = "monitor"  -> monitor.pc \in {"sleep_locked", "sleep_callback",
                                           "elapsed_locked", "elapsed_callback"}
      [] t = "listener" -> listener.pc \in {"locked", "active_callback"}
      [] t = "main"     -> caller["main"].pc \in {"get_idle_time_locked",
                                                  "reset_locked"}

\* thread t waits for the lock
Waiting(t) ==
    CASE t = "monitor"  -> monitor.pc \in {"sleep_check", "elapsed_check"}
      [] t = "listener" -> listener.pc = "on_activity"
      [] t = "main"     -> caller["main"].pc \in {"get_idle_time", "reset"}

\* C34: a thread that is at a read or write of last_activity or is_idle, in
\* the watcher tick, the activity notification, get_idle_time or reset, holds
\* the lock, so no two threads are inside a read-modify-write at once
C34_AccessUnderLock ==
    /\ \A t \in LockUsers : Inside(t) => lock = Some(t)
    /\ \A t \in LockUsers : \A u \in LockUsers :
           Inside(t) /\ Inside(u) => t = u

\* the monitor is inside its elapsed block while the listener and the main
\* thread, in reset, wait for the lock
C34_Witness ==
    /\ monitor.pc = "elapsed_locked"
    /\ lock = Some("monitor")
    /\ Waiting("listener")
    /\ caller["main"].pc = "reset"

(***************************************************************************)
(* C35: the detector never deadlocks.                                      *)
(***************************************************************************)
InTick ==
    monitor.pc \in {"sleep_check", "sleep_locked", "sleep_callback",
                    "elapsed_check", "elapsed_locked", "elapsed_callback"}
InNotification == listener.pc \in {"on_activity", "locked", "active_callback"}

C36_StopTerminates ==
    /\ (app = "joining") ~> (monitor.pc \in {"done", "dead"})
    /\ (app = "joining") ~> (app = "stopped")
    /\ [][(~running /\ monitor.pc = "test") => monitor'.pc \in {"test", "done"}]_vars

\* stop was called while the watcher was inside the idle callback, and has
\* returned before the watcher left its loop
C36_Witness ==
    /\ app = "stopped"
    /\ monitor.pc \in {"sleep_callback", "elapsed_callback"}

\* stop was called while the watcher slept, and the watcher has left its loop
C36_WitnessDone ==
    /\ app = "stopped"
    /\ monitor.pc = "done"

(***************************************************************************)
(* C37: a system sleep that the watcher turns into an idle episode is      *)
(* left out of the total of the tracked project.                           *)
(***************************************************************************)
\* the seconds of [a, b] that lie outside [c, d]
Outside(a, b, c, d) == (b - a) - Max(0, Min(b, d) - Max(a, c))

\* the seconds outside [c, d] of the sessions among the first n events of ev
RECURSIVE SessionTimeOutside(_, _, _, _)
SessionTimeOutside(ev, c, d, n) ==
    IF n < 2 THEN 0
    ELSE SessionTimeOutside(ev, c, d, n - 1)
           + (IF IsTerminating(ev[n]) /\ IsStart(ev[n - 1])
              THEN Outside(ts(ev[n - 1]), ts(ev[n]), c, d)
              ELSE 0)

\* the first idle episode of the run came from a sleep of the system while a
\* project was tracked, and the activity that ended it has resumed the project
ResumedAfterSleep ==
    /\ call.op = "resume"
    /\ call.pre.paused_project /= None
    /\ Len(invoked) = 2
    /\ invoked[1].callback = "idle"
    /\ invoked[1].block = "sleep_check"
    /\ invoked[2].callback = "active"

\* C37: after the resume that follows a sleep-triggered idle episode, the
\* total of the tracked project counts no time between the last poll before
\* the gap and the resume instant: it is the time of its sessions outside
\* that interval, plus the live session since the resume
C37_SleptIntervalExcluded ==
    ResumedAfterSleep =>
        LET p          == Get(call.pre.paused_project)
            last_poll  == invoked[1].at - invoked[1].since
            resumed_at == invoked[2].at
            ev         == SessionEventsOf(p)
        IN  Total(p, 0, clock)
              = SessionTimeOutside(ev, last_poll, resumed_at, Len(ev))
                  + (clock - resumed_at)

(***************************************************************************)
(* C38: the daily breakdown and calculate_project_time agree on the total  *)
(* of a project.                                                           *)
(***************************************************************************)
\* the end of the last day a log of the model reaches
EndOfDays == (MaxDays + 1) * SecondsPerDay

\* C38: for a log the ledger operations produced and no live session, the
\* daily totals of a project, summed over all dates, are what
\* calculate_project_time returns for it over a range that holds every event
C38_DailyTotalsSumToTotal ==
    current_project = None =>
        LET dt == daily_totals_of(entries)
        IN  \A p \in Projects :
                CreditedUpTo(dt, MaxDays, p) = Total(p, 0, EndOfDays)

\* no live session; a project has time on two days, from a session across
\* midnight that an AutoPause ended, and an adjustment
C38_Witness ==
    /\ current_project = None
    /\ \E p \in Projects :
          /\ Credited(daily_totals_of(entries), 0, p) > 0
          /\ Credited(daily_totals_of(entries), 1, p) > 0
          /\ \E i \in 1..Len(entries) :
                /\ entries[i].project_id = p
                /\ entries[i].event = "auto_pause"
                /\ ts(entries[i]) >= SecondsPerDay
          /\ \E i \in 1..Len(entries) :
                entries[i].project_id = p /\ IsAdjustment(entries[i])

(***************************************************************************)
(* C39: calculate_project_time over adjacent ranges.                       *)
(***************************************************************************)
\* C39: with no live session and a < b < c, the total of a project over
\* [a, c] is its total over [a, b] plus its total over the range from just
\* after b up to c, also when a completed session starts before b and stops
\* after b
C39_AdditiveOverAdjacentRanges ==
    current_project = None =>
        \A p \in Projects : \A a, b, c \in QueryTimes :
            (a < b /\ b < c) =>
                Total(p, a, c) = Total(p, a, b) + Total(p, b + 1, c)

\* the parts of C39: ranges that cut no session, and ranges that cut one
NoSessionAcross(p, b) ==
    \A i \in 2..Len(SessionEventsOf(p)) :
        ~(/\ IsStart(SessionEventsOf(p)[i - 1])
          /\ IsTerminating(SessionEventsOf(p)[i])
          /\ ts(SessionEventsOf(p)[i - 1]) <= b
          /\ ts(SessionEventsOf(p)[i]) > b)

C39_AdditiveWhenNoSessionIsCut ==
    current_project = None =>
        \A p \in Projects : \A a, b, c \in QueryTimes :
            (a < b /\ b < c /\ NoSessionAcross(p, b)) =>
                Total(p, a, c) = Total(p, a, b) + Total(p, b + 1, c)

(***************************************************************************)
(* C40: what the replay does with a Stop/AutoPause that has no open Start  *)
(* and with a Start that arrives while a Start is open.                    *)
(***************************************************************************)
\* the log without its entry i
Without(log, i) == SubSeq(log, 1, i - 1) \o SubSeq(log, i + 1, Len(log))

\* entry e is one the query q replays: of its project and inside its range
Replays(q, e) ==
    /\ e.project_id = q.project_id
    /\ q.start_date <= ts(e) /\ ts(e) <= q.end_date

\* among the entries q replays, a Start before entry i is open at i
OpenAt(q, i) ==
    \E j \in 1..(i - 1) :
        /\ Replays(q, q.log[j]) /\ IsStart(q.log[j])
        /\ \A k \in (j + 1)..(i - 1) :
              ~(Replays(q, q.log[k]) /\ IsTerminating(q.log[k]))

\* the Start at i is followed, among the entries q replays, by another Start
\* before any Stop/AutoPause
Superseded(q, i) ==
    \E j \in (i + 1)..Len(q.log) :
        /\ Replays(q, q.log[j]) /\ IsStart(q.log[j])
        /\ \A k \in (i + 1)..(j - 1) :
              ~(Replays(q, q.log[k]) /\ IsTerminating(q.log[k]))

\* what the query q returns for the log
QueryTotal(q, log) ==
    calculate_project_time([Tracker EXCEPT !.entries = log], q.project_id,
                           q.start_date, q.end_date, clock)

\* C40: a Stop/AutoPause with no open Start leaves the total as it is without
\* that event, and a Start that a second Start replaces leaves the total as it
\* is without the first Start: the interval from the earlier Start is not
\* counted
C40_OrphanStopAndReplacedStart ==
    (answer /= None /\ Get(answer).outcome.raised = None) =>
        LET q == Get(answer)
        IN  \A i \in 1..Len(q.log) :
                (/\ Replays(q, q.log[i])
                 /\ \/ IsTerminating(q.log[i]) /\ ~OpenAt(q, i)
                    \/ IsStart(q.log[i]) /\ Superseded(q, i))
                => Get(q.outcome.value) = QueryTotal(q, Without(q.log, i))

\* Start, Start, Stop of one project, the second Start later than the first:
\* the total is the time from the second Start to the Stop
C40_Witness ==
    /\ answer /= None
    /\ Get(answer).outcome.raised = None
    /\ Len(Get(answer).log) = 3
    /\ \A i \in 1..3 : Replays(Get(answer), Get(answer).log[i])
    /\ IsStart(Get(answer).log[1])
    /\ IsStart(Get(answer).log[2])
    /\ IsTerminating(Get(answer).log[3])
    /\ ts(Get(answer).log[1]) < ts(Get(answer).log[2])
    /\ ts(Get(answer).log[2]) <= ts(Get(answer).log[3])
    /\ Get(Get(answer).outcome.value)
           = ts(Get(answer).log[3]) - ts(Get(answer).log[2])

\* Stop, Start, Stop of one project: the first Stop has no open Start and the
\* total is the one session
C40_WitnessOrphan ==
    /\ answer /= None
    /\ Get(answer).outcome.raised = None
    /\ Len(Get(answer).log) = 3
    /\ \A i \in 1..3 : Replays(Get(answer), Get(answer).log[i])
    /\ IsTerminating(Get(answer).log[1])
    /\ IsStart(Get(answer).log[2])
    /\ IsTerminating(Get(answer).log[3])
    /\ Get(Get(answer).outcome.value) = Quantum
=============================================================================
